---- MODULE Spec2Model ----
(***************************************************************************)
(* Model of the mesh node engine (mesh-core): the flood router with TTL    *)
(* and dedup (router.rs, message.rs), the peer registry (peer.rs), the     *)
(* stream transport's queues (transport.rs) and the orchestrator's event   *)
(* loop (node.rs, start_mesh_node).                                        *)
(*                                                                         *)
(* Time is counted in seconds.  NodeIds, MessageIds and connection ids are *)
(* small integers.                                                         *)
(***************************************************************************)
EXTENDS Integers, Sequences, FiniteSets, TLC

(***************************************************************************)
(* Program constants                                                       *)
(***************************************************************************)
\* router.rs:6   const SEEN_EXPIRY: Duration = Duration::from_secs(300)
SEEN_EXPIRY == 300
\* router.rs:7   const MAX_SEEN_CACHE: usize = 10_000.  The model keeps the
\* constant's role and scales its value, so that a full cache is reachable.
MAX_SEEN_CACHE == 2
\* node.rs:19    const HEARTBEAT_INTERVAL: Duration = Duration::from_secs(10)
HEARTBEAT_INTERVAL == 10
\* node.rs:21    const PEER_TIMEOUT: Duration = Duration::from_secs(30)
PEER_TIMEOUT == 30

(***************************************************************************)
(* Bounds of the model                                                     *)
(***************************************************************************)
\* the clock of SpecRouter stops at MaxRouterTime
MaxRouterTime == 301
\* prepare_forward calls in SpecRouter (messages_relayed is a u64 counter)
MaxRelayed == 1

\* messages the applications originate in SpecMesh
MaxMsgs == 1
\* stream connections opened in SpecPeers
MaxConns == 2
\* the clock of SpecPeers stops at MaxPeerTime
MaxPeerTime == 30
\* frames a queue holds before a send to it waits: the writer queue of a
\* connection with its stream (mpsc::channel(64), transport.rs) and the
\* inbound-frames queue (mpsc::channel(256), node.rs)
MaxQueue == 2
\* events a node emits in SpecPeers before its discovery channel goes quiet
MaxEvents == 3

Nodes == {1, 2, 3, 4}
\* Option<[u8; 32]>::None as a destination: a broadcast
NoDest == 0
\* the router driven directly in SpecRouter is node 1's
RouterNode == 1
\* MessageIds (new_message_id draws 32 random bytes): enough of them to fill
\* the seen-cache and present one more
MsgIds == 1..(MAX_SEEN_CACHE + 1)

VARIABLES
    now,        \* the monotonic clock (Instant::now()), in seconds
    router,     \* router[n]: the Router owned by node n's orchestrator
    ret,        \* the last Router call made in SpecRouter: the operation, the
                \* MessageId, sender and TTL of the message it was given and
                \* whether it returned true / Some
    admitted,   \* admitted[n][id]: when node n's should_process last returned
                \* true for MessageId id; Never if it has not
    peers,      \* peers[n]: the PeerManager of node n, a set of PeerState records
    inbound_senders, \* inbound_senders[n]: pending inbound address -> writer handle
    known_gateways,  \* known_gateways[n]
    active_call,     \* active_call[n]: NoActiveCall or [peer, stream_id]
    conns,      \* the stream connections opened so far; a connection's id is its index
    wq,         \* wq[<<c, n>>]: frames node n enqueued on its writer queue of
                \* connection c that the remote reader has not read yet
    incoming,   \* incoming[n]: the inbound-frames queue (incoming_rx) of node n
    announce,   \* announce[n]: the connection-announce queue (inbound_conn_rx)
    events,     \* events[n]: the NodeEvents node n emitted, in order
    nextId,     \* the next fresh MessageId
    sent,       \* the messages the applications originated so far
    handledFrom, \* handledFrom[n]: the connections a frame of which the
                \* orchestrator of n has handled
    heartbeat,  \* heartbeat[n]: when the heartbeat interval of node n next fires
    file_mgr,   \* file_mgr[n]: the FileTransferManager of node n's orchestrator
    disk,       \* disk[n]: the files written under node n's save_dir, path -> bytes
    orch,       \* orch[n]: where the orchestrator task of node n is: "running"
                \* in its loop, "stopped" after a break, "panicked"
    shutdown,   \* shutdown[n]: the value in the watch channel of shutdown_tx
    tasks,      \* tasks[n]: the listener task and the two discovery tasks of
                \* node n, each "running" or "ended"
    key_file,   \* key_file[n]: the secret in the file at key_path, or NoKeyFile
    identity,   \* identity[n]: the signing key the current run of n loaded
    generated,  \* the number of signing keys generated after the first start
    read_ended, \* the handles <<c, n>> whose read task (of node n, on
                \* connection c) has ended
    write_ended, \* the handles <<c, n>> whose write task has ended
    crypto,     \* the SessionKeys calls made in SpecCrypto and their results
    sending     \* sending[n]: the sends the orchestrator of n has still to
                \* make in the branch it is running, each a writer handle
                \* and a frame; empty when it is at its select!

routervars == <<router, ret, admitted>>
netvars == <<peers, inbound_senders, known_gateways, active_call, conns, wq,
             incoming, announce, events, nextId, sent, handledFrom, heartbeat,
             file_mgr, disk>>
taskvars == <<shutdown, tasks, key_file, identity, generated, read_ended,
              write_ended, crypto, sending>>
procvars == <<orch, taskvars>>
vars == <<now, router, ret, admitted, peers, inbound_senders, known_gateways,
          active_call, conns, wq, incoming, announce, events, nextId, sent, handledFrom,
          heartbeat, file_mgr, disk, orch, shutdown, tasks, key_file, identity,
          generated, read_ended, write_ended, crypto, sending>>

\* no file at key_path
NoKeyFile == 0
\* no SessionKeys call made yet
NoCrypto == [op |-> "none"]
\* the tasks of every node after start_mesh_node, which found or made the
\* key file of node n holding key n
InitProc ==
    /\ orch = [n \in Nodes |-> "running"]
    /\ shutdown = [n \in Nodes |-> FALSE]
    /\ tasks = [n \in Nodes |-> [listener |-> "running", discovery_sender |-> "running",
                                 discovery_listener |-> "running"]]
    /\ key_file = [n \in Nodes |-> n]
    /\ identity = [n \in Nodes |-> n]
    /\ generated = 0
    /\ read_ended = {}
    /\ write_ended = {}
    /\ crypto = NoCrypto
    /\ sending = [n \in Nodes |-> <<>>]

(***************************************************************************)
(* message.rs: MeshMessage                                                 *)
(***************************************************************************)
MeshMessage(type, sender, id, ttl, dest, payload) ==
    [msg_type |-> type, sender_id |-> sender, msg_id |-> id, ttl |-> ttl,
     destination |-> dest, payload |-> payload]

\* MeshMessage::decrement_ttl: the bool it returns
DecrementTtlOk(m) == m.ttl # 0

\* a decrement that takes two off the TTL
DecrementTtlTwice(m) == IF m.ttl = 0 THEN m ELSE [m EXCEPT !.ttl = m.ttl - 2]
\* MeshMessage::decrement_ttl: the message afterwards (ttl is a u8)
DecrementTtl(m) == IF m.ttl = 0 THEN m ELSE [m EXCEPT !.ttl = m.ttl - 1]

(***************************************************************************)
(* router.rs: Router                                                       *)
(***************************************************************************)
MeshStatsDefault ==
    [total_peers |-> 0, messages_relayed |-> 0, messages_received |-> 0,
     unique_nodes_seen |-> 0, total_hops_observed |-> 0, hop_count_samples |-> 0]

RouterNew(our_node_id) ==
    [seen |-> {}, seen_times |-> <<>>, our_node_id |-> our_node_id,
     all_nodes_seen |-> {our_node_id}, stats |-> MeshStatsDefault]

\* a cleanup that drops an entry as soon as it is SEEN_EXPIRY old
ExpiredAtExpiry(e, t) == t - e.time >= SEEN_EXPIRY
\* Router::cleanup: an entry goes once it is older than SEEN_EXPIRY
Expired(e, t) == t - e.time > SEEN_EXPIRY

\* a cleanup that removes nothing
CleanupNothing(r, t) == r
\* Router::cleanup: retain the entries that have not expired

Cleanup(r, t) ==
    LET gone == {r.seen_times[i].id : i \in {j \in 1..Len(r.seen_times) : Expired(r.seen_times[j], t)}}
    IN  [r EXCEPT !.seen_times = SelectSeq(r.seen_times, LAMBDA e : ~Expired(e, t)),
                  !.seen = r.seen \ gone]

\* Router::mark_seen
MarkSeen(r, id, t) ==
    LET r1 == [r EXCEPT !.seen = r.seen \cup {id},
                        !.seen_times = Append(r.seen_times, [id |-> id, time |-> t])]
    IN  IF Len(r1.seen_times) > MAX_SEEN_CACHE THEN Cleanup(r1, t) ELSE r1

\* a router that takes every message to be for its node
IsForUsAlways(r, m) == TRUE
\* Router::is_for_us
IsForUs(r, m) == IF m.destination = NoDest THEN TRUE ELSE m.destination = r.our_node_id

\* Router::should_forward
ShouldForward(r, m) == IF m.destination = NoDest THEN TRUE ELSE m.destination # r.our_node_id

\* Router::record_hops: the original TTL it assumes for a type; -1 for the
\* types it does not track (the `_ => return` arm)
OriginalTtl(type) ==
    CASE type = "Text" -> 10
      [] type = "PublicBroadcast" -> 50
      [] type = "SOS" -> 255
      [] type = "ProfileUpdate" -> 3
      [] type = "Voice" -> 10
      [] type \in {"VoiceStream", "CallStart", "CallEnd"} -> 2
      [] type \in {"FileOffer", "FileChunk", "FileAccept"} -> 10
      [] type \in {"ReadReceipt", "GroupMessage", "Disappearing"} -> 10
      [] type \in {"TypingStart", "TypingStop"} -> 1
      [] type \in {"CheckIn", "Triage", "ResourceReq"} -> 50
      [] type \in {"GroupJoin", "GroupLeave"} -> 10
      [] OTHER -> -1

\* u8::saturating_sub
SaturatingSub(a, b) == IF a >= b THEN a - b ELSE 0

RecordHops(r, m) ==
    LET orig == OriginalTtl(m.msg_type)
        hops == SaturatingSub(orig, m.ttl)
    IN  IF orig = -1 \/ hops = 0 THEN r
        ELSE [r EXCEPT !.stats.total_hops_observed = @ + hops,
                       !.stats.hop_count_samples = @ + 1]

\* a router that takes its own messages for anybody's
IsOwnNever(r, m) == FALSE
\* Router::should_process: `msg.sender_id == self.our_node_id`
IsOwn(r, m) == m.sender_id = r.our_node_id

\* a router that takes no TTL for spent
TtlSpentNever(m) == FALSE
\* Router::should_process: `msg.ttl == 0`
TtlSpent(m) == m.ttl = 0

\* a router that gives an SOS no priority
IsSosNever(m) == FALSE
\* a router that gives every message the priority of an SOS
IsSosAlways(m) == TRUE
\* Router::should_process: `msg.msg_type == MessageType::SOS`
IsSos(m) == m.msg_type = "SOS"

\* a should_process that cleans the cache before it turns a duplicate away
ShouldProcessCleaning(r, m, t) ==
    IF IsOwn(r, m) THEN [ok |-> FALSE, router |-> r]
    ELSE IF TtlSpent(m) THEN [ok |-> FALSE, router |-> r]
    ELSE IF m.msg_id \in r.seen THEN [ok |-> FALSE, router |-> Cleanup(r, t)]
    ELSE
      LET is_sos == IsSos(m)
          full == ~is_sos /\ Cardinality(r.seen) >= MAX_SEEN_CACHE
          r1 == IF full THEN Cleanup(r, t) ELSE r
      IN  IF full /\ Cardinality(r1.seen) >= MAX_SEEN_CACHE
          THEN [ok |-> FALSE, router |-> r1]
          ELSE
            LET r2 == MarkSeen(r1, m.msg_id, t)
                nodes == r2.all_nodes_seen \cup {m.sender_id}
                r3 == [r2 EXCEPT !.all_nodes_seen = nodes,
                                 !.stats.unique_nodes_seen = Cardinality(nodes)]
                r4 == RecordHops(r3, m)
                r5 == IF IsForUs(r4, m)
                      THEN [r4 EXCEPT !.stats.messages_received = @ + 1]
                      ELSE r4
            IN  [ok |-> TRUE, router |-> r5]

\* Router::should_process: [ok |-> the bool returned, router |-> the router afterwards]
ShouldProcess(r, m, t) ==
    IF IsOwn(r, m) THEN [ok |-> FALSE, router |-> r]
    ELSE IF TtlSpent(m) THEN [ok |-> FALSE, router |-> r]
    ELSE IF m.msg_id \in r.seen THEN [ok |-> FALSE, router |-> r]
    ELSE
      LET is_sos == IsSos(m)
          full == ~is_sos /\ Cardinality(r.seen) >= MAX_SEEN_CACHE
          r1 == IF full THEN Cleanup(r, t) ELSE r
      IN  IF full /\ Cardinality(r1.seen) >= MAX_SEEN_CACHE
          THEN [ok |-> FALSE, router |-> r1]
          ELSE
            LET r2 == MarkSeen(r1, m.msg_id, t)
                nodes == r2.all_nodes_seen \cup {m.sender_id}
                r3 == [r2 EXCEPT !.all_nodes_seen = nodes,
                                 !.stats.unique_nodes_seen = Cardinality(nodes)]
                r4 == RecordHops(r3, m)
                r5 == IF IsForUs(r4, m)
                      THEN [r4 EXCEPT !.stats.messages_received = @ + 1]
                      ELSE r4
            IN  [ok |-> TRUE, router |-> r5]

NoMsg == [msg_type |-> "None"]

\* Router::prepare_forward: [msg |-> Some(forwarded) or NoMsg, router |-> afterwards]
PrepareForward(r, m) ==
    IF DecrementTtlOk(m)
    THEN [msg |-> DecrementTtl(m),
          router |-> [r EXCEPT !.stats.messages_relayed = @ + 1]]
    ELSE [msg |-> NoMsg, router |-> r]


Never == -1
NoRet == [op |-> "none"]
NoActiveCall == [peer |-> 0]

(***************************************************************************)
(* message.rs: the constructors the orchestrator uses.  Ping, Pong and     *)
(* KeyExchange frames never reach the router, which alone reads a          *)
(* MessageId, so they carry MessageId 0 here.                              *)
(***************************************************************************)
(* file_transfer.rs: FileTransferManager                                   *)
(***************************************************************************)
\* bytes per chunk (64 KiB in the source) and the largest file prepare_send
\* takes (100 MiB in the source), scaled
CHUNK_SIZE == 2
MAX_FILE_SIZE == 3

\* the byte values of the model, the longest file a node may be asked to
\* send (one byte more than MAX_FILE_SIZE), and the largest sequence number a
\* FileChunk frame carries (a u32 in the source)
Bytes == {0, 1}
MaxFileLen == 4
MaxSeq == 2

\* a map with no key (HashMap::new())
NoFiles == [k \in {} |-> 0]
\* HashMap::insert and HashMap::remove
MapInsert(f, k, v) == [x \in DOMAIN f \cup {k} |-> IF x = k THEN v ELSE f[x]]
MapRemove(f, k) == [x \in DOMAIN f \ {k} |-> f[x]]

\* a digest that is the same for every input
Sha256Constant(data) == <<"sha256", <<>>>>
\* Sha256 of data: a digest that tells any two inputs apart
Sha256(data) == <<"sha256", data>>

Min(a, b) == IF a < b THEN a ELSE b
Max(a, b) == IF a > b THEN a ELSE b

\* a chunk count that rounds down
ChunkCountFloor(len) == Max(len \div CHUNK_SIZE, 1)
\* the chunk_count of prepare_send for a file of len bytes
ChunkCount(len) == Max((len + CHUNK_SIZE - 1) \div CHUNK_SIZE, 1)

\* the chunks of prepare_send: vec![vec![]] for an empty file, else
\* data.chunks(CHUNK_SIZE)
ChunksOf(data) ==
    IF data = <<>> THEN <<(<<>>)>>
    ELSE [i \in 1..ChunkCount(Len(data)) |->
             SubSeq(data, (i - 1) * CHUNK_SIZE + 1, Min(i * CHUNK_SIZE, Len(data)))]

\* FileTransferManager::new
FileTransferManagerNew == [outgoing |-> NoFiles, incoming |-> NoFiles]

\* std::fs::read(file_path) fails: no file is at the path named NoSuchPath
NoSuchPath == "missing"
Unreadable(file) == file.name = NoSuchPath

\* FileTransferManager::prepare_send of the file [name, data] read from
\* file_path, with file_id the 16 random bytes drawn:
\* [ok |-> Ok or Err, metadata |-> the FileOfferPayload, mgr |-> afterwards]
PrepareSend(mgr, dest, file, file_id) ==
    IF Unreadable(file) \/ Len(file.data) > MAX_FILE_SIZE
    THEN [ok |-> FALSE, metadata |-> <<>>, mgr |-> mgr]
    ELSE LET metadata == [file_id |-> file_id, filename |-> file.name,
                          size_bytes |-> Len(file.data),
                          chunk_count |-> ChunkCount(Len(file.data)),
                          sha256_hash |-> Sha256(file.data)]
         IN  [ok |-> TRUE, metadata |-> metadata,
              mgr |-> [mgr EXCEPT !.outgoing = MapInsert(@, file_id,
                          [metadata |-> metadata, dest |-> dest,
                           chunks |-> ChunksOf(file.data), next_chunk |-> 0,
                           accepted |-> FALSE])]]

\* FileTransferManager::mark_accepted: [ok |-> the bool returned, mgr |-> afterwards]
MarkAccepted(mgr, file_id) ==
    IF file_id \in DOMAIN mgr.outgoing
    THEN [ok |-> TRUE, mgr |-> [mgr EXCEPT !.outgoing[file_id].accepted = TRUE]]
    ELSE [ok |-> FALSE, mgr |-> mgr]

NoChunk == [file_id |-> 0]

\* a next_chunk that does not look at the accepted flag
NextChunkUnaccepted(mgr, file_id) ==
    IF file_id \notin DOMAIN mgr.outgoing THEN [chunk |-> NoChunk, mgr |-> mgr]
    ELSE LET transfer == mgr.outgoing[file_id]
         IN  IF transfer.next_chunk >= transfer.metadata.chunk_count
             THEN [chunk |-> NoChunk, mgr |-> mgr]
             ELSE [chunk |-> [file_id |-> file_id, sequence |-> transfer.next_chunk,
                              data |-> transfer.chunks[transfer.next_chunk + 1]],
                   mgr |-> [mgr EXCEPT !.outgoing[file_id].next_chunk = @ + 1]]
\* FileTransferManager::next_chunk: [chunk |-> Some(FileChunkPayload) or
\* NoChunk, mgr |-> afterwards]
NextChunk(mgr, file_id) ==
    IF file_id \notin DOMAIN mgr.outgoing THEN [chunk |-> NoChunk, mgr |-> mgr]
    ELSE LET transfer == mgr.outgoing[file_id]
         IN  IF ~transfer.accepted \/ transfer.next_chunk >= transfer.metadata.chunk_count
             THEN [chunk |-> NoChunk, mgr |-> mgr]
             ELSE [chunk |-> [file_id |-> file_id, sequence |-> transfer.next_chunk,
                              data |-> transfer.chunks[transfer.next_chunk + 1]],
                   mgr |-> [mgr EXCEPT !.outgoing[file_id].next_chunk = @ + 1]]

\* FileTransferManager::is_outgoing_complete
IsOutgoingComplete(mgr, file_id) ==
    IF file_id \in DOMAIN mgr.outgoing
    THEN mgr.outgoing[file_id].next_chunk >= mgr.outgoing[file_id].metadata.chunk_count
    ELSE TRUE

\* FileTransferManager::outgoing_dest(..).unwrap_or(default)
OutgoingDest(mgr, file_id, default) ==
    IF file_id \in DOMAIN mgr.outgoing THEN mgr.outgoing[file_id].dest ELSE default

\* FileTransferManager::remove_outgoing
RemoveOutgoing(mgr, file_id) == [mgr EXCEPT !.outgoing = MapRemove(@, file_id)]

\* FileTransferManager::register_incoming
RegisterIncoming(mgr, metadata, sender_id) ==
    [mgr EXCEPT !.incoming = MapInsert(@, metadata.file_id,
        [metadata |-> metadata, sender_id |-> sender_id, chunks |-> NoFiles,
         accepted |-> FALSE])]

\* FileTransferManager::accept_incoming: [sender |-> Some(sender_id) or
\* NoDest, mgr |-> afterwards]
AcceptIncoming(mgr, file_id) ==
    IF file_id \in DOMAIN mgr.incoming
    THEN [sender |-> mgr.incoming[file_id].sender_id,
          mgr |-> [mgr EXCEPT !.incoming[file_id].accepted = TRUE]]
    ELSE [sender |-> NoDest, mgr |-> mgr]

NoPct == -1

\* FileTransferManager::receive_chunk: [pct |-> Some(pct) or NoPct, mgr |-> afterwards]
ReceiveChunk(mgr, file_id, sequence, data) ==
    IF file_id \notin DOMAIN mgr.incoming THEN [pct |-> NoPct, mgr |-> mgr]
    ELSE IF ~mgr.incoming[file_id].accepted THEN [pct |-> NoPct, mgr |-> mgr]
    ELSE LET chunks == MapInsert(mgr.incoming[file_id].chunks, sequence, data)
             count == mgr.incoming[file_id].metadata.chunk_count
         IN  [pct |-> Min((Cardinality(DOMAIN chunks) * 100) \div count, 100),
              mgr |-> [mgr EXCEPT !.incoming[file_id].chunks = chunks]]

\* a completeness test that is never satisfied
IsIncomingCompleteNever(mgr, file_id) == FALSE
\* FileTransferManager::is_incoming_complete
IsIncomingComplete(mgr, file_id) ==
    IF file_id \in DOMAIN mgr.incoming
    THEN Cardinality(DOMAIN mgr.incoming[file_id].chunks)
            >= mgr.incoming[file_id].metadata.chunk_count
    ELSE FALSE

\* the bytes finalize_incoming reassembles: the chunks 0 .. count - 1, in order
RECURSIVE Reassemble(_, _, _)
Reassemble(chunks, i, count) ==
    IF i >= count THEN <<>> ELSE chunks[i] \o Reassemble(chunks, i + 1, count)

\* isize::MAX, scaled: Vec::with_capacity panics ("capacity overflow") when
\* asked for more bytes
ISIZE_MAX == 7
\* finalize_incoming panics in Vec::with_capacity(size_bytes as usize): the
\* record exists and the offer advertised more than isize::MAX bytes
FinalizePanics(mgr, file_id) ==
    /\ file_id \in DOMAIN mgr.incoming
    /\ mgr.incoming[file_id].metadata.size_bytes > ISIZE_MAX

\* a finalize_incoming that takes the record out of the table only when it
\* succeeds
FinalizeIncomingKeeps(mgr, file_id, dk) ==
    IF file_id \notin DOMAIN mgr.incoming
    THEN [ok |-> FALSE, path |-> "", mgr |-> mgr, disk |-> dk]
    ELSE LET transfer == mgr.incoming[file_id]
             count == transfer.metadata.chunk_count
             whole == /\ \A i \in 0..(count - 1) : i \in DOMAIN transfer.chunks
                      /\ Sha256(Reassemble(transfer.chunks, 0, count))
                            = transfer.metadata.sha256_hash
         IN  IF whole
             THEN [ok |-> TRUE, path |-> transfer.metadata.filename,
                   mgr |-> [mgr EXCEPT !.incoming = MapRemove(@, file_id)],
                   disk |-> MapInsert(dk, transfer.metadata.filename,
                                      Reassemble(transfer.chunks, 0, count))]
             ELSE [ok |-> FALSE, path |-> "", mgr |-> mgr, disk |-> dk]
\* FileTransferManager::finalize_incoming; the directory can be created and
\* the file written: [ok |-> Ok or Err, path |-> the path returned,
\* mgr |-> afterwards, disk |-> the files under save_dir afterwards]
FinalizeIncoming(mgr, file_id, dk) ==
    IF file_id \notin DOMAIN mgr.incoming
    THEN [ok |-> FALSE, path |-> "", mgr |-> mgr, disk |-> dk]
    ELSE LET transfer == mgr.incoming[file_id]
             mgr1 == [mgr EXCEPT !.incoming = MapRemove(@, file_id)]
             count == transfer.metadata.chunk_count
         IN  IF \E i \in 0..(count - 1) : i \notin DOMAIN transfer.chunks
             THEN [ok |-> FALSE, path |-> "", mgr |-> mgr1, disk |-> dk]
             ELSE IF Sha256(Reassemble(transfer.chunks, 0, count))
                        # transfer.metadata.sha256_hash
             THEN [ok |-> FALSE, path |-> "", mgr |-> mgr1, disk |-> dk]
             ELSE [ok |-> TRUE, path |-> transfer.metadata.filename, mgr |-> mgr1,
                   disk |-> MapInsert(dk, transfer.metadata.filename,
                                      Reassemble(transfer.chunks, 0, count))]

(***************************************************************************)
\* MeshMessage::text
Text(sender, id) == MeshMessage("Text", sender, id, 10, NoDest, "text")
\* MeshMessage::text_to
TextTo(sender, dest, id) == MeshMessage("Text", sender, id, 10, dest, "text")
\* MeshMessage::sos
Sos(sender, id) == MeshMessage("SOS", sender, id, 255, NoDest, "sos")
\* MeshMessage::call_start
CallStart(sender, dest, id) == MeshMessage("CallStart", sender, id, 2, dest, "stream")
\* MeshMessage::file_offer, file_chunk and file_accept
FileOfferMsg(sender, dest, id, metadata) ==
    MeshMessage("FileOffer", sender, id, 10, dest, metadata)
FileChunkMsg(sender, dest, id, chunk) ==
    MeshMessage("FileChunk", sender, id, 10, dest, chunk)
FileAcceptMsg(sender, dest, id, file_id) ==
    MeshMessage("FileAccept", sender, id, 10, dest, [file_id |-> file_id])
\* the Ping of the heartbeat
PingMsg(sender) == MeshMessage("Ping", sender, 0, 1, NoDest, "")
\* a Pong that names no destination
PongToAll(sender, dest) == MeshMessage("Pong", sender, 0, 1, NoDest, "")
\* the Pong that answers a Ping
PongMsg(sender, dest) == MeshMessage("Pong", sender, 0, 1, dest, "")

(***************************************************************************)
(* crypto.rs: X25519 agreement.  Node n's secret is n; the shared secret   *)
(* of two secrets is their unordered pair.                                 *)
(***************************************************************************)
PublicKey(secret) == <<"pub", secret>>
NoKeys == [shared_key |-> {}, our_public |-> <<"pub", 0>>]
\* an exchange that derives the key from the own secret alone
FromExchangeOwn(our_secret, their_public) ==
    [shared_key |-> {our_secret}, our_public |-> PublicKey(our_secret)]
\* SessionKeys::from_exchange
FromExchange(our_secret, their_public) ==
    [shared_key |-> {our_secret, their_public[2]}, our_public |-> PublicKey(our_secret)]
\* KeyExchangePayload::to_message
KeyExchangeMsg(sender, dest, public) ==
    MeshMessage("KeyExchange", sender, 0, 1, dest, public)

(***************************************************************************)
(* peer.rs: PeerState and PeerManager                                      *)
(***************************************************************************)
\* PeerState::new
PeerStateNew(node_id, addr, sender, t) ==
    [node_id |-> node_id, addr |-> addr, last_seen |-> t, session_keys |-> NoKeys,
     sender |-> sender, is_gateway |-> FALSE]
\* PeerManager::contains
PeerContains(ps, id) == \E p \in ps : p.node_id = id
\* PeerManager::get
PeerGet(ps, id) == CHOOSE p \in ps : p.node_id = id
\* PeerManager::add: HashMap::insert replaces the record under the same NodeId
PeerAdd(ps, peer) == {p \in ps : p.node_id # peer.node_id} \cup {peer}
\* PeerState::touch through PeerManager::get_mut
PeerTouch(ps, id, t) ==
    {IF p.node_id = id THEN [p EXCEPT !.last_seen = t] ELSE p : p \in ps}
\* a peer that is still alive when exactly the timeout has passed
IsAliveAtTimeout(p, timeout, t) == t - p.last_seen <= timeout
\* PeerState::is_alive
IsAlive(p, timeout, t) == t - p.last_seen < timeout
\* PeerManager::prune_stale: the NodeIds it removes
Stale(ps, timeout, t) == {p.node_id : p \in {q \in ps : ~IsAlive(q, timeout, t)}}
\* PeerManager::broadcast_senders
BroadcastSenders(ps) == {<<p.node_id, p.sender>> : p \in ps}

(***************************************************************************)
(* transport.rs: connections and queues                                    *)
(***************************************************************************)
\* the listen address of node p, which discovery announces
ListenAddr(p) == <<"listen", p>>
\* the remote address the listener of the accepting node sees for connection c
RemoteAddr(c) == <<"remote", c>>
\* the node at the other end of writer handle h = <<c, n>>
RemoteOf(h) == IF conns[h[1]].from = h[2] THEN conns[h[1]].to ELSE conns[h[1]].from
\* a queue that hands out its newest frame first
SendAllFront(q, hs, f) ==
    [h \in DOMAIN q |-> IF h \in hs /\ ~conns[h[1]].closed /\ h \notin write_ended
                        THEN <<f>> \o q[h] ELSE q[h]]
\* enqueue frame f on every writer queue of hs; the send to the queue of a
\* connection whose tasks have ended returns an error, which the callers
\* ignore (`let _ = sender.send(..)`)
SendAll(q, hs, f) ==
    [h \in DOMAIN q |-> IF h \in hs /\ ~conns[h[1]].closed /\ h \notin write_ended
                        THEN Append(q[h], f) ELSE q[h]]
Frame(m, k) == [msg |-> m, hops |-> k]

\* handle_incoming_connection: the listener of the accepting node accepted
\* connection c; the announce is published before the reader starts
Accept(c) ==
    /\ c \in 1..Len(conns)
    /\ ~conns[c].accepted
    /\ conns' = [conns EXCEPT ![c].accepted = TRUE]
    /\ announce' = [announce EXCEPT ![conns[c].to] =
                      Append(@, [addr |-> RemoteAddr(c), sender |-> <<c, conns[c].to>>])]
    /\ UNCHANGED <<now, routervars, peers, inbound_senders, known_gateways,
                   active_call, wq, incoming, events, nextId, sent, handledFrom, heartbeat,
                   file_mgr, disk, procvars>>

\* handle_peer_connection, read task: one frame read from the stream and
\* pushed on the inbound queue of the reading node
\* a frame as it is on the wire that is not the to_frame of a message: kind
\* "Oversized" has a length prefix above 1 000 000, kind "Undecodable" a body
\* that MeshMessage::from_bytes rejects
RawFrame(kind) == Frame([msg_type |-> kind], 0)
\* a reader that takes any length prefix
TooLargeNever(f) == FALSE
\* the read task: len > 1_000_000
TooLarge(f) == f.msg.msg_type = "Oversized"
\* the read task: MeshMessage::from_bytes(&msg_buf) is Ok
Deserialises(f) == f.msg.msg_type # "Undecodable"

\* the write task of handle h writes the frame at the head of its queue and
\* the read task at the other end of the connection reads it: an oversized
\* length prefix ends the read task; a body that does not deserialise is
\* logged and the task reads on; a message is sent to incoming_tx, which
\* fails (and is ignored) once the orchestrator that held incoming_rx is over
ReadFrame(h) ==
    /\ h \in DOMAIN wq
    /\ wq[h] # <<>>
    /\ LET c == h[1]
           r == RemoteOf(h)
           f == Head(wq[h])
       IN  /\ (conns[c].to = r => conns[c].accepted)
           /\ ~conns[c].closed
           /\ h \notin write_ended
           /\ <<c, r>> \notin read_ended
           /\ Len(incoming[r]) < MaxQueue
           /\ wq' = [wq EXCEPT ![h] = Tail(@)]
           /\ read_ended' = IF TooLarge(f) THEN read_ended \cup {<<c, r>>} ELSE read_ended
           /\ incoming' =
                 IF TooLarge(f) \/ ~Deserialises(f) \/ orch[r] # "running"
                 THEN incoming
                 ELSE [incoming EXCEPT ![r] =
                         Append(@, [msg |-> f.msg, hops |-> f.hops, conn |-> c,
                                    from_addr |-> IF conns[c].to = r THEN RemoteAddr(c)
                                                  ELSE ListenAddr(h[2])])]
    /\ UNCHANGED <<now, routervars, peers, inbound_senders, known_gateways,
                   active_call, conns, announce, events, nextId, sent, handledFrom, heartbeat,
                   file_mgr, disk, orch, shutdown, tasks, key_file, identity, generated,
                   write_ended, crypto, sending>>

(***************************************************************************)
(* node.rs: the orchestrator's event loop (start_mesh_node).  One action   *)
(* is one branch of its select!, run to its end.                           *)
(***************************************************************************)
Emit(ev, n, es) == [ev EXCEPT ![n] = @ \o es]

\* the writer handles a command floods its message to
AllSenders(n) == {bs[2] : bs \in BroadcastSenders(peers[n])}

\* no frame is on its way: the applications of the model submit a command
\* once the frames of the one before have been handled
Quiescent ==
    /\ \A h \in DOMAIN wq : wq[h] = <<>>
    /\ \A n \in Nodes : incoming[n] = <<>>

\* a command that builds one message and sends it to every peer
Flood(n, m) ==
    /\ nextId <= MaxMsgs
    /\ Quiescent
    /\ nextId' = nextId + 1
    /\ sent' = sent \cup {m}
    /\ wq' = SendAll(wq, AllSenders(n), Frame(m, 0))

\* NodeCommand::SendBroadcast
SendBroadcast(n) ==
    /\ Flood(n, Text(n, nextId))
    /\ UNCHANGED <<now, routervars, peers, inbound_senders, known_gateways,
                   active_call, conns, incoming, announce, events, handledFrom, heartbeat,
                   file_mgr, disk, procvars>>

\* NodeCommand::SendDirect
SendDirect(n, dest) ==
    /\ Flood(n, TextTo(n, dest, nextId))
    /\ UNCHANGED <<now, routervars, peers, inbound_senders, known_gateways,
                   active_call, conns, incoming, announce, events, handledFrom, heartbeat,
                   file_mgr, disk, procvars>>

\* NodeCommand::SendSOS
SendSOS(n) ==
    /\ Flood(n, Sos(n, nextId))
    /\ UNCHANGED <<now, routervars, peers, inbound_senders, known_gateways,
                   active_call, conns, incoming, announce, events, handledFrom, heartbeat,
                   file_mgr, disk, procvars>>

\* NodeCommand::StartVoiceCall
StartVoiceCall(n, peer) ==
    /\ Flood(n, CallStart(n, peer, nextId))
    /\ active_call' = [active_call EXCEPT ![n] = [peer |-> peer]]
    /\ UNCHANGED <<now, routervars, peers, inbound_senders, known_gateways,
                   conns, incoming, announce, events, handledFrom, heartbeat,
                   file_mgr, disk, procvars>>

\* the inbound_conn_rx branch: remember the writer handle under the address
HandleInbound(n) ==
    /\ announce[n] # <<>>
    /\ LET conn == Head(announce[n])
       IN  inbound_senders' = [inbound_senders EXCEPT ![n] =
               {e \in @ : e.addr # conn.addr} \cup {conn}]
    /\ announce' = [announce EXCEPT ![n] = Tail(@)]
    /\ UNCHANGED <<now, routervars, peers, known_gateways, active_call, conns,
                   wq, incoming, events, nextId, sent, handledFrom, heartbeat,
                   file_mgr, disk, procvars>>

\* the discovery_rx branch, for a peer that is our own id or already known
DiscoveredKnown(n, d) ==
    IF PeerContains(peers[n], d.node_id)
    THEN LET p == PeerGet(peers[n], d.node_id)
             found == d.has_internet /\ ~p.is_gateway
             lost == ~d.has_internet /\ p.is_gateway
             p1 == [p EXCEPT !.last_seen = now,
                             !.is_gateway = IF found THEN TRUE
                                            ELSE IF lost THEN FALSE ELSE @]
         IN  /\ peers' = [peers EXCEPT ![n] = (@ \ {p}) \cup {p1}]
             /\ events' = Emit(events, n,
                   IF found THEN <<[ev |-> "GatewayFound", node_id |-> d.node_id]>>
                   ELSE IF lost THEN <<[ev |-> "GatewayLost", node_id |-> d.node_id]>>
                   ELSE <<>>)
             /\ known_gateways' = [known_gateways EXCEPT ![n] =
                   IF found THEN @ \cup {d.node_id}
                   ELSE IF lost THEN @ \ {d.node_id} ELSE @]
             /\ UNCHANGED <<conns, wq>>
    ELSE UNCHANGED <<peers, events, known_gateways, conns, wq>>

\* a discovery_rx branch that registers a gateway without remembering it
DiscoveredNewUnnoted(n, d) ==
    LET c == Len(conns) + 1
        sender == <<c, n>>
        peer == [PeerStateNew(d.node_id, d.addr, sender, now)
                    EXCEPT !.is_gateway = d.has_internet]
        kx_msg == KeyExchangeMsg(n, d.node_id, PublicKey(n))
    IN  /\ Len(conns) < MaxConns
        /\ conns' = Append(conns, [from |-> n, to |-> d.node_id, accepted |-> FALSE, closed |-> FALSE])
        /\ wq' = [h \in DOMAIN wq \cup {sender, <<c, d.node_id>>} |->
                    IF h = sender THEN <<Frame(kx_msg, 0)>>
                    ELSE IF h \in DOMAIN wq THEN wq[h] ELSE <<>>]
        /\ peers' = [peers EXCEPT ![n] = PeerAdd(@, peer)]
        /\ events' = Emit(events, n,
              <<[ev |-> "PeerConnected", node_id |-> d.node_id]>> \o
              (IF d.has_internet
               THEN <<[ev |-> "GatewayFound", node_id |-> d.node_id]>> ELSE <<>>))
        /\ UNCHANGED known_gateways

\* the discovery_rx branch, for an unknown peer: connect_to_peer succeeded
DiscoveredNew(n, d) ==
    LET c == Len(conns) + 1
        sender == <<c, n>>
        peer == [PeerStateNew(d.node_id, d.addr, sender, now)
                    EXCEPT !.is_gateway = d.has_internet]
        kx_msg == KeyExchangeMsg(n, d.node_id, PublicKey(n))
    IN  /\ Len(conns) < MaxConns
        /\ conns' = Append(conns, [from |-> n, to |-> d.node_id, accepted |-> FALSE, closed |-> FALSE])
        /\ wq' = [h \in DOMAIN wq \cup {sender, <<c, d.node_id>>} |->
                    IF h = sender THEN <<Frame(kx_msg, 0)>>
                    ELSE IF h \in DOMAIN wq THEN wq[h] ELSE <<>>]
        /\ peers' = [peers EXCEPT ![n] = PeerAdd(@, peer)]
        /\ events' = Emit(events, n,
              <<[ev |-> "PeerConnected", node_id |-> d.node_id]>> \o
              (IF d.has_internet
               THEN <<[ev |-> "GatewayFound", node_id |-> d.node_id]>> ELSE <<>>))
        /\ known_gateways' = [known_gateways EXCEPT ![n] =
              IF d.has_internet THEN @ \cup {d.node_id} ELSE @]

\* a discovery_rx branch that connects whoever is announced
DiscoveredAnew(n, node_id, has_internet) ==
    LET d == [node_id |-> node_id, addr |-> ListenAddr(node_id),
              has_internet |-> has_internet]
    IN  /\ Len(events[n]) < MaxEvents
        /\ DiscoveredNew(n, d)
        /\ UNCHANGED <<now, routervars, inbound_senders, active_call, incoming,
                       announce, nextId, sent, handledFrom, heartbeat,
                       file_mgr, disk, procvars>>
\* the discovery_rx branch
Discovered(n, node_id, has_internet) ==
    LET d == [node_id |-> node_id, addr |-> ListenAddr(node_id),
              has_internet |-> has_internet]
    IN  /\ Len(events[n]) < MaxEvents
        /\ IF d.node_id = n \/ PeerContains(peers[n], d.node_id)
           THEN DiscoveredKnown(n, d)
           ELSE DiscoveredNew(n, d)
        /\ UNCHANGED <<now, routervars, inbound_senders, active_call, incoming,
                       announce, nextId, sent, handledFrom, heartbeat,
                   file_mgr, disk, procvars>>

\* a take that leaves the pending handle in the map
InboundKeep(senders, addr) == senders
\* inbound_senders.remove(&incoming.from_addr): the map afterwards
InboundRemove(senders, addr) == {e \in senders : e.addr # addr}

\* the KeyExchange of the incoming_rx branch
OnKeyExchange(n, inc) ==
    LET msg == inc.msg
        session == FromExchange(n, msg.payload)
        pending == {e \in inbound_senders[n] : e.addr = inc.from_addr}
    IN  IF PeerContains(peers[n], msg.sender_id)
        THEN /\ peers' = [peers EXCEPT ![n] =
                   {IF p.node_id = msg.sender_id
                    THEN [p EXCEPT !.session_keys = session, !.last_seen = now]
                    ELSE p : p \in @}]
             /\ UNCHANGED <<inbound_senders, wq, events>>
        ELSE IF pending # {}
        THEN LET sender == (CHOOSE e \in pending : TRUE).sender
                 peer == [PeerStateNew(msg.sender_id, inc.from_addr, sender, now)
                             EXCEPT !.session_keys = session]
                 kx_msg == KeyExchangeMsg(n, msg.sender_id, PublicKey(n))
             IN  /\ inbound_senders' = [inbound_senders EXCEPT ![n] =
                       InboundRemove(@, inc.from_addr)]
                 /\ peers' = [peers EXCEPT ![n] = PeerAdd(@, peer)]
                 /\ wq' = SendAll(wq, {sender}, Frame(kx_msg, 0))
                 /\ events' = Emit(events, n,
                       <<[ev |-> "PeerConnected", node_id |-> msg.sender_id]>>)
        ELSE UNCHANGED <<peers, inbound_senders, wq, events>>

\* the Ping of the incoming_rx branch
OnPing(n, inc) ==
    IF PeerContains(peers[n], inc.msg.sender_id)
    THEN /\ peers' = [peers EXCEPT ![n] = PeerTouch(@, inc.msg.sender_id, now)]
         /\ wq' = SendAll(wq, {PeerGet(peers[n], inc.msg.sender_id).sender},
                          Frame(PongMsg(n, inc.msg.sender_id), 0))
    ELSE UNCHANGED <<peers, wq>>

\* the Pong of the incoming_rx branch
OnPong(n, inc) ==
    /\ peers' = [peers EXCEPT ![n] = PeerTouch(@, inc.msg.sender_id, now)]
    /\ UNCHANGED wq

\* the application event of a message that is for us (the match on msg_type);
\* the MessageId stands for the content the event carries
AppEvents(msg) ==
    CASE msg.msg_type = "Text" ->
           <<[ev |-> "MessageReceived", sender_id |-> msg.sender_id, msg_id |-> msg.msg_id]>>
      [] msg.msg_type = "PublicBroadcast" ->
           <<[ev |-> "PublicBroadcast", sender_id |-> msg.sender_id, msg_id |-> msg.msg_id]>>
      [] msg.msg_type = "SOS" ->
           <<[ev |-> "SOSReceived", sender_id |-> msg.sender_id, msg_id |-> msg.msg_id]>>
      [] msg.msg_type = "CallStart" ->
           <<[ev |-> "IncomingCall", sender_id |-> msg.sender_id, msg_id |-> msg.msg_id]>>
      [] msg.msg_type = "CallEnd" ->
           <<[ev |-> "CallEnded", sender_id |-> msg.sender_id, msg_id |-> msg.msg_id]>>
      [] OTHER -> <<>>

\* the writer handles a forwarded copy goes to: every peer's but the one
\* registered under the message's sender_id
ForwardTargets(ps, msg) ==
    {bs[2] : bs \in {x \in BroadcastSenders(ps) : x[1] # msg.sender_id}}

\* the rest of the incoming_rx branch: router gate, dispatch, forward, touch
OnRouted(n, inc) ==
    LET msg == inc.msg
        gate == ShouldProcess(router[n], msg, now)
    IN  IF ~gate.ok
        THEN /\ router' = [router EXCEPT ![n] = gate.router]
             /\ UNCHANGED <<admitted, peers, wq, events, active_call>>
        ELSE
          LET for_us == IsForUs(gate.router, msg)
              fwd == IF ShouldForward(gate.router, msg)
                     THEN PrepareForward(gate.router, msg)
                     ELSE [msg |-> NoMsg, router |-> gate.router]
          IN  /\ router' = [router EXCEPT ![n] = fwd.router]
              /\ admitted' = IF msg.msg_id \in MsgIds
                             THEN [admitted EXCEPT ![n][msg.msg_id] = now]
                             ELSE admitted
              /\ events' = IF for_us THEN Emit(events, n, AppEvents(msg)) ELSE events
              /\ active_call' = IF for_us /\ msg.msg_type = "CallStart"
                                THEN [active_call EXCEPT ![n] = [peer |-> msg.sender_id]]
                                ELSE IF for_us /\ msg.msg_type = "CallEnd"
                                        /\ active_call[n].peer = msg.sender_id
                                THEN [active_call EXCEPT ![n] = NoActiveCall]
                                ELSE active_call
              /\ wq' = IF fwd.msg # NoMsg
                       THEN SendAll(wq, ForwardTargets(peers[n], msg),
                                    Frame(fwd.msg, inc.hops + 1))
                       ELSE wq
              /\ peers' = [peers EXCEPT ![n] = PeerTouch(@, msg.sender_id, now)]

\* the incoming_rx branch
HandleIncoming(n) ==
    /\ incoming[n] # <<>>
    /\ LET inc == Head(incoming[n])
       IN  /\ incoming' = [incoming EXCEPT ![n] = Tail(@)]
           /\ handledFrom' = [handledFrom EXCEPT ![n] = @ \cup {inc.conn}]
           /\ IF inc.msg.msg_type = "KeyExchange"
              THEN OnKeyExchange(n, inc) /\ UNCHANGED <<router, admitted, active_call>>
              ELSE IF inc.msg.msg_type = "Ping"
              THEN OnPing(n, inc)
                   /\ UNCHANGED <<router, admitted, active_call, inbound_senders, events>>
              ELSE IF inc.msg.msg_type = "Pong"
              THEN OnPong(n, inc)
                   /\ UNCHANGED <<router, admitted, active_call, inbound_senders, events>>
              ELSE OnRouted(n, inc) /\ UNCHANGED inbound_senders
    /\ UNCHANGED <<now, ret, known_gateways, conns, announce, nextId, sent, heartbeat,
                   file_mgr, disk, procvars>>

\* every order in which the elements of S can be visited
Orders(S) == {o \in [1..Cardinality(S) -> S] : \A i, j \in 1..Cardinality(S) : o[i] = o[j] => i = j}

\* a heartbeat that prunes without a word
PruneSilently(o, i, gws) == <<>>
\* the events of the heartbeat for the pruned peers, visited in order o
RECURSIVE PruneEvents(_, _, _)
PruneEvents(o, i, gws) ==
    IF i > Len(o) THEN <<>>
    ELSE (IF o[i] \in gws THEN <<[ev |-> "GatewayLost", node_id |-> o[i]]>> ELSE <<>>)
         \o <<[ev |-> "PeerDisconnected", node_id |-> o[i]]>>
         \o PruneEvents(o, i + 1, gws)

\* the heartbeat branch: the interval (tokio::time::interval) fires at once
\* and then every HEARTBEAT_INTERVAL, late when the loop is busy; a send
\* waits while the writer queue is full
Heartbeat(n) ==
    LET stale == Stale(peers[n], PEER_TIMEOUT, now)
        left == {p \in peers[n] : p.node_id \notin stale}
    IN  /\ heartbeat[n] <= now
        /\ heartbeat' = [heartbeat EXCEPT ![n] = @ + HEARTBEAT_INTERVAL]
        /\ \A h \in AllSenders(n) : Len(wq[h]) < MaxQueue
        /\ wq' = SendAll(wq, AllSenders(n), Frame(PingMsg(n), 0))
        /\ peers' = [peers EXCEPT ![n] = left]
        /\ \E o \in Orders(stale) :
              events' = Emit(events, n, PruneEvents(o, 1, known_gateways[n]))
        /\ known_gateways' = [known_gateways EXCEPT ![n] = @ \ stale]
        /\ router' = [router EXCEPT ![n].stats.total_peers = Cardinality(left)]
        /\ UNCHANGED <<now, ret, admitted, inbound_senders, active_call, conns,
                       incoming, announce, nextId, sent, handledFrom, file_mgr, disk, procvars>>

\* time passes
Tick ==
    /\ now + HEARTBEAT_INTERVAL <= MaxPeerTime
    /\ now' = now + HEARTBEAT_INTERVAL
    /\ UNCHANGED <<routervars, netvars, procvars>>

(***************************************************************************)
(* SpecRouter: one Router driven through its public operations with any    *)
(* message, while the clock advances.                                      *)
(***************************************************************************)
\* The messages the router is called with: a broadcast Text, a direct Text
\* for another node and an SOS (message.rs: text, text_to, sos), from the
\* router's own node or from node 2, with TTL 0 or 3, under enough MessageIds
\* to fill the seen-cache and present one more.
RouterIds == MsgIds
RouterKinds == {<<"Text", NoDest>>, <<"Text", 2>>, <<"SOS", NoDest>>}
RouterTtls == {0, 3}
RouterMsgs ==
    {MeshMessage(k[1], s, id, ttl, k[2], "p") :
        k \in RouterKinds, s \in {1, 2}, id \in RouterIds, ttl \in RouterTtls}


\* the state right after start_mesh_node built the orchestrator's objects
Init ==
    /\ now = 0
    /\ router = [n \in Nodes |-> RouterNew(n)]
    /\ ret = NoRet
    /\ admitted = [n \in Nodes |-> [id \in MsgIds |-> Never]]
    /\ peers = [n \in Nodes |-> {}]
    /\ inbound_senders = [n \in Nodes |-> {}]
    /\ known_gateways = [n \in Nodes |-> {}]
    /\ active_call = [n \in Nodes |-> NoActiveCall]
    /\ conns = <<>>
    /\ wq = <<>>
    /\ incoming = [n \in Nodes |-> <<>>]
    /\ announce = [n \in Nodes |-> <<>>]
    /\ events = [n \in Nodes |-> <<>>]
    /\ nextId = 1
    /\ sent = {}
    /\ handledFrom = [n \in Nodes |-> {}]
    /\ heartbeat = [n \in Nodes |-> 0]
    /\ file_mgr = [n \in Nodes |-> FileTransferManagerNew]
    /\ disk = [n \in Nodes |-> NoFiles]
    /\ InitProc

CallShouldProcess(m) ==
    LET res == ShouldProcess(router[RouterNode], m, now)
    IN  /\ router' = [router EXCEPT ![RouterNode] = res.router]
        /\ ret' = [op |-> "should_process", id |-> m.msg_id, sender |-> m.sender_id,
                   ttl |-> m.ttl, ok |-> res.ok]
        /\ admitted' = IF res.ok
                       THEN [admitted EXCEPT ![RouterNode][m.msg_id] = now]
                       ELSE admitted
        /\ UNCHANGED <<now, netvars, procvars>>

CallPrepareForward(m) ==
    LET res == PrepareForward(router[RouterNode], m)
    IN  /\ router[RouterNode].stats.messages_relayed < MaxRelayed
        /\ router' = [router EXCEPT ![RouterNode] = res.router]
        /\ ret' = [op |-> "prepare_forward", id |-> m.msg_id, sender |-> m.sender_id,
                   ttl |-> m.ttl, ok |-> res.msg # NoMsg]
        /\ UNCHANGED <<now, admitted, netvars, procvars>>

CallCleanup ==
    /\ router' = [router EXCEPT ![RouterNode] = Cleanup(@, now)]
    /\ ret' = [op |-> "cleanup"]
    /\ UNCHANGED <<now, admitted, netvars, procvars>>

\* the clock moves on by 300 s or 301 s: an entry is reached at exactly
\* SEEN_EXPIRY and just past it
RouterTick ==
    /\ \E d \in {SEEN_EXPIRY, SEEN_EXPIRY + 1} :
          /\ now + d <= MaxRouterTime
          /\ now' = now + d
    /\ UNCHANGED <<routervars, netvars, procvars>>

NextRouter ==
    \/ \E m \in RouterMsgs : CallShouldProcess(m)
    \/ \E m \in RouterMsgs : CallPrepareForward(m)
    \/ CallCleanup
    \/ RouterTick

SpecRouter == Init /\ [][NextRouter]_vars

(***************************************************************************)
(* SpecMesh: four nodes whose links are up and paired; the applications    *)
(* send messages, which the orchestrators route.                           *)
(***************************************************************************)
\* the links of a topology, each <<a, b>> a connection that a opened to b
Line == <<(<<1, 2>>), (<<2, 3>>), (<<3, 4>>)>>
Diamond == <<(<<1, 2>>), (<<2, 3>>), (<<1, 3>>), (<<3, 4>>)>>
Ring == <<(<<1, 2>>), (<<2, 3>>), (<<3, 4>>), (<<4, 1>>)>>
MeshTopologies == {Line, Diamond, Ring}

\* the peer records node n holds once every link of T is paired: the state
\* Discovered, Accept, HandleInbound and both KeyExchanges leave behind
PairedPeers(T, n) ==
    {[node_id |-> T[i][2], addr |-> ListenAddr(T[i][2]), last_seen |-> 0,
      session_keys |-> FromExchange(n, PublicKey(T[i][2])), sender |-> <<i, n>>,
      is_gateway |-> FALSE] : i \in {j \in 1..Len(T) : T[j][1] = n}}
    \cup
    {[node_id |-> T[i][1], addr |-> RemoteAddr(i), last_seen |-> 0,
      session_keys |-> FromExchange(n, PublicKey(T[i][1])), sender |-> <<i, n>>,
      is_gateway |-> FALSE] : i \in {j \in 1..Len(T) : T[j][2] = n}}

\* the state in which every link of T is up and paired
InitTopology(T) ==
        /\ now = 0
        /\ router = [n \in Nodes |-> RouterNew(n)]
        /\ ret = NoRet
        /\ admitted = [n \in Nodes |-> [id \in MsgIds |-> Never]]
        /\ peers = [n \in Nodes |-> PairedPeers(T, n)]
        /\ inbound_senders = [n \in Nodes |-> {}]
        /\ known_gateways = [n \in Nodes |-> {}]
        /\ active_call = [n \in Nodes |-> NoActiveCall]
        /\ conns = [i \in 1..Len(T) |-> [from |-> T[i][1], to |-> T[i][2], accepted |-> TRUE, closed |-> FALSE]]
        /\ wq = [h \in UNION {{<<i, T[i][1]>>, <<i, T[i][2]>>} : i \in 1..Len(T)} |-> <<>>]
        /\ incoming = [n \in Nodes |-> <<>>]
        /\ announce = [n \in Nodes |-> <<>>]
        /\ events = [n \in Nodes |-> <<>>]
        /\ nextId = 1
        /\ sent = {}
        /\ handledFrom = [n \in Nodes |-> {i \in 1..Len(T) : n \in {T[i][1], T[i][2]}}]
        /\ heartbeat = [n \in Nodes |-> 0]
        /\ file_mgr = [n \in Nodes |-> FileTransferManagerNew]
        /\ disk = [n \in Nodes |-> NoFiles]
        /\ InitProc

InitMesh == \E T \in MeshTopologies : InitTopology(T)

NextMesh ==
    \/ \E n \in Nodes : SendBroadcast(n)
    \/ \E n \in Nodes : \E dest \in Nodes \ {n} : SendDirect(n, dest)
    \/ \E n \in Nodes : SendSOS(n)
    \/ \E n \in Nodes : \E peer \in Nodes \ {n} : StartVoiceCall(n, peer)
    \/ \E h \in DOMAIN wq : ReadFrame(h)
    \/ \E n \in Nodes : HandleIncoming(n)

SpecMesh == InitMesh /\ [][NextMesh]_vars

(***************************************************************************)
(* SpecQueue: two paired nodes whose applications submit broadcasts while  *)
(* earlier frames are still in flight, so that the writer queues fill.     *)
(***************************************************************************)
MaxBusyMsgs == 3
Pair == <<(<<1, 2>>)>>
QueueNodes == {1, 2}

\* NodeCommand::SendBroadcast taken while frames are in flight: each
\* sender.send(msg).await returns once the writer queue, bounded, has room
SendBroadcastNow(n) ==
    /\ nextId <= MaxBusyMsgs
    /\ \A h \in AllSenders(n) : Len(wq[h]) < MaxQueue
    /\ nextId' = nextId + 1
    /\ sent' = sent \cup {Text(n, nextId)}
    /\ wq' = SendAll(wq, AllSenders(n), Frame(Text(n, nextId), 0))
    /\ UNCHANGED <<now, routervars, peers, inbound_senders, known_gateways,
                   active_call, conns, incoming, announce, events, handledFrom, heartbeat,
                   file_mgr, disk, procvars>>

InitQueue == InitTopology(Pair)

NextQueue ==
    \/ \E n \in QueueNodes : SendBroadcastNow(n)
    \/ \E h \in DOMAIN wq : ReadFrame(h)
    \/ \E n \in Nodes : HandleIncoming(n)

SpecQueue == InitQueue /\ [][NextQueue]_vars

(***************************************************************************)
(* SpecPeers: the peer lifecycle.  Nodes 1 and 2 run the orchestrator and  *)
(* discover one another; node 4 is a foreign process that opens streams,   *)
(* writes KeyExchange frames under sender NodeIds of its choice and never  *)
(* answers a Ping.                                                         *)
(***************************************************************************)
PeerNodes == {1, 2}
\* the node whose heartbeat timer runs in SpecPeers
HeartbeatNodes == {1}
\* what discovery reports as has_internet in SpecPeers
PeerInternet == {FALSE}
Foreign == 4
\* the sender NodeIds the foreign process writes in its frames
ForeignIds == {2, 3}
\* the frames the foreign process writes on a stream it opened
MaxForeignFrames == 2
ForeignScripts == [1..MaxForeignFrames -> ForeignIds]

\* the foreign process connects to the listener of node p and writes
\* KeyExchange frames under the sender NodeIds of script
ForeignConnect(p, script) ==
    LET c == Len(conns) + 1
        frames == [i \in 1..Len(script) |->
                     Frame(KeyExchangeMsg(script[i], p, PublicKey(Foreign)), 0)]
    IN  /\ Len(conns) < MaxConns
        /\ conns' = Append(conns, [from |-> Foreign, to |-> p, accepted |-> FALSE, closed |-> FALSE])
        /\ wq' = [h \in DOMAIN wq \cup {<<c, Foreign>>, <<c, p>>} |->
                    IF h = <<c, Foreign>> THEN frames
                    ELSE IF h \in DOMAIN wq THEN wq[h] ELSE <<>>]
        /\ UNCHANGED <<now, routervars, peers, inbound_senders, known_gateways,
                       active_call, incoming, announce, events, nextId, sent, handledFrom, heartbeat,
                   file_mgr, disk, procvars>>

\* the foreign process reads a frame off one of its streams
ForeignRead(c) ==
    /\ c \in 1..Len(conns)
    /\ conns[c].from = Foreign
    /\ wq[<<c, conns[c].to>>] # <<>>
    /\ <<c, conns[c].to>> \notin write_ended
    /\ wq' = [wq EXCEPT ![<<c, conns[c].to>>] = Tail(@)]
    /\ UNCHANGED <<now, routervars, peers, inbound_senders, known_gateways,
                   active_call, conns, incoming, announce, events, nextId, sent, handledFrom, heartbeat,
                   file_mgr, disk, procvars>>

\* time passes in SpecPeers once the heartbeat timers due at this instant
\* have fired and the frames and announces on their way have been handled:
\* handling a frame takes far less than HEARTBEAT_INTERVAL
PeerTick ==
    /\ \A n \in HeartbeatNodes : heartbeat[n] > now
    /\ Quiescent
    /\ \A n \in Nodes : announce[n] = <<>>
    /\ Tick

NextPeers ==
    \/ \E n \in PeerNodes : \E p \in PeerNodes : \E g \in PeerInternet : Discovered(n, p, g)
    \/ \E c \in 1..MaxConns : Accept(c)
    \/ \E n \in PeerNodes : HandleInbound(n)
    \/ \E h \in DOMAIN wq : h[2] # Foreign /\ RemoteOf(h) # Foreign /\ ReadFrame(h)
    \/ \E h \in DOMAIN wq : h[2] = Foreign /\ ReadFrame(h)
    \/ \E n \in PeerNodes : HandleIncoming(n)
    \/ \E n \in HeartbeatNodes : Heartbeat(n)
    \/ PeerTick
    \/ \E p \in PeerNodes : \E s \in ForeignScripts : ForeignConnect(p, s)
    \/ \E c \in 1..MaxConns : ForeignRead(c)

SpecPeers == Init /\ [][NextPeers]_vars

(***************************************************************************)
(* SpecFiles: two paired nodes; node 1 offers a file to node 2, node 2     *)
(* accepts, and the file frames addressed to a node reach its orchestrator *)
(* in any order and any number of times, together with FileChunk frames a  *)
(* third peer makes up.  The writer queues are not drained: they show what *)
(* was enqueued, in order.                                                 *)
(***************************************************************************)
MaxOffers == 1
MaxAccepts == 2
MaxFileEvents == 5
FileIds == {1}
FileSenders == {1}
FileReceivers == {2}

\* the byte strings of at most k bytes
BytesUpTo(k) == UNION {[1..m -> Bytes] : m \in 0..k}
\* the files an application may ask to send
Files == {[name |-> "f", data |-> d] : d \in BytesUpTo(MaxFileLen)}

\* the frames of type t sent so far
SentOfType(t) == {m \in sent : m.msg_type = t}

\* NodeCommand::SendFile
SendFile(n, dest, file, file_id) ==
    LET r == PrepareSend(file_mgr[n], dest, file, file_id)
        msg == FileOfferMsg(n, dest, nextId, r.metadata)
    IN  /\ Cardinality(SentOfType("FileOffer")) < MaxOffers
        /\ IF r.ok
           THEN /\ file_mgr' = [file_mgr EXCEPT ![n] = r.mgr]
                /\ wq' = SendAll(wq, AllSenders(n), Frame(msg, 0))
                /\ sent' = sent \cup {msg}
                /\ nextId' = nextId + 1
           ELSE UNCHANGED <<file_mgr, wq, sent, nextId>>
        /\ UNCHANGED <<now, routervars, peers, inbound_senders, known_gateways, active_call,
                       conns, incoming, announce, events, handledFrom, heartbeat, disk, procvars>>

\* NodeCommand::AcceptFile
AcceptFile(n, file_id) ==
    LET r == AcceptIncoming(file_mgr[n], file_id)
        msg == FileAcceptMsg(n, r.sender, nextId, file_id)
    IN  /\ Cardinality(SentOfType("FileAccept")) < MaxAccepts
        /\ IF r.sender # NoDest
           THEN /\ file_mgr' = [file_mgr EXCEPT ![n] = r.mgr]
                /\ wq' = SendAll(wq, AllSenders(n), Frame(msg, 0))
                /\ sent' = sent \cup {msg}
                /\ nextId' = nextId + 1
           ELSE UNCHANGED <<file_mgr, wq, sent, nextId>>
        /\ UNCHANGED <<now, routervars, peers, inbound_senders, known_gateways, active_call,
                       conns, incoming, announce, events, handledFrom, heartbeat, disk, procvars>>

\* the FileOffer arm of the incoming_rx branch
OnFileOffer(n, msg) ==
    /\ file_mgr' = [file_mgr EXCEPT ![n] =
          RegisterIncoming(@, msg.payload, msg.sender_id)]
    /\ events' = Emit(events, n,
          <<[ev |-> "FileOffered", sender_id |-> msg.sender_id,
             file_id |-> msg.payload.file_id, filename |-> msg.payload.filename,
             size |-> msg.payload.size_bytes]>>)
    /\ UNCHANGED <<wq, sent, nextId, disk, orch>>

\* `while let Some(chunk_payload) = file_mgr.next_chunk(..)`: the chunks it
\* yields, in order, and the manager afterwards
RECURSIVE DrainChunks(_, _)
DrainChunks(mgr, file_id) ==
    LET r == NextChunk(mgr, file_id)
    IN  IF r.chunk = NoChunk THEN [chunks |-> <<>>, mgr |-> mgr]
        ELSE LET rest == DrainChunks(r.mgr, file_id)
             IN  [chunks |-> <<r.chunk>> \o rest.chunks, mgr |-> rest.mgr]

\* the frames msgs enqueued one after the other on every writer queue of hs
RECURSIVE SendEach(_, _, _)
SendEach(q, hs, msgs) ==
    IF msgs = <<>> THEN q
    ELSE SendEach(SendAll(q, hs, Frame(Head(msgs), 0)), hs, Tail(msgs))

\* the FileAccept arm of the incoming_rx branch
OnFileAccept(n, msg) ==
    LET file_id == msg.payload.file_id
        ma == MarkAccepted(file_mgr[n], file_id)
        dest == OutgoingDest(ma.mgr, file_id, msg.sender_id)
        drained == DrainChunks(ma.mgr, file_id)
        chunk_msgs == [i \in 1..Len(drained.chunks) |->
                         FileChunkMsg(n, dest, nextId + i - 1, drained.chunks[i])]
    IN  IF ma.ok
        THEN /\ wq' = SendEach(wq, AllSenders(n), chunk_msgs)
             /\ sent' = sent \cup {chunk_msgs[i] : i \in 1..Len(chunk_msgs)}
             /\ nextId' = nextId + Len(chunk_msgs)
             /\ file_mgr' = [file_mgr EXCEPT ![n] = RemoveOutgoing(drained.mgr, file_id)]
             /\ UNCHANGED <<events, disk, orch>>
        ELSE UNCHANGED <<file_mgr, wq, sent, nextId, events, disk, orch>>

\* the FileChunk arm of the incoming_rx branch
OnFileChunk(n, msg) ==
    LET chunk == msg.payload
        rc == ReceiveChunk(file_mgr[n], chunk.file_id, chunk.sequence, chunk.data)
        progress == <<[ev |-> "FileProgress", file_id |-> chunk.file_id, pct |-> rc.pct]>>
        fin == FinalizeIncoming(rc.mgr, chunk.file_id, disk[n])
    IN  /\ IF rc.pct = NoPct
           THEN UNCHANGED <<file_mgr, events, disk, orch>>
           ELSE IF ~IsIncomingComplete(rc.mgr, chunk.file_id)
           THEN /\ file_mgr' = [file_mgr EXCEPT ![n] = rc.mgr]
                /\ events' = Emit(events, n, progress)
                /\ UNCHANGED <<disk, orch>>
           ELSE IF FinalizePanics(rc.mgr, chunk.file_id)
           THEN \* the panic unwinds the orchestrator task: its loop is over
                \* and its state is dropped
                /\ orch' = [orch EXCEPT ![n] = "panicked"]
                /\ events' = Emit(events, n, progress)
                /\ UNCHANGED <<file_mgr, disk>>
           ELSE /\ file_mgr' = [file_mgr EXCEPT ![n] = fin.mgr]
                /\ disk' = [disk EXCEPT ![n] = fin.disk]
                /\ events' = Emit(events, n, progress \o
                      (IF fin.ok
                       THEN <<[ev |-> "FileComplete", file_id |-> chunk.file_id,
                               path |-> fin.path]>>
                       ELSE <<>>))
                /\ UNCHANGED orch
        /\ UNCHANGED <<wq, sent, nextId>>

\* the incoming_rx branch for a file frame that the router admits and finds
\* to be for this node: the match on msg_type
HandleFile(n, msg) ==
    /\ msg.destination = n
    /\ Len(events[n]) < MaxFileEvents
    /\ IF msg.msg_type = "FileOffer" THEN OnFileOffer(n, msg)
       ELSE IF msg.msg_type = "FileAccept" THEN OnFileAccept(n, msg)
       ELSE OnFileChunk(n, msg)
    /\ UNCHANGED <<now, routervars, peers, inbound_senders, known_gateways, active_call,
                   conns, incoming, announce, handledFrom, heartbeat, taskvars>>

\* the FileChunk frames another peer (node 3) can make up for node n
ForgedChunks(n) ==
    {FileChunkMsg(3, n, 0, [file_id |-> f, sequence |-> q, data |-> d]) :
        f \in FileIds, q \in 0..MaxSeq, d \in BytesUpTo(CHUNK_SIZE)}

InitFiles == InitTopology(Pair)

NextFiles ==
    \/ \E n \in FileSenders : \E dest \in FileReceivers : \E file \in Files :
          \E file_id \in FileIds : SendFile(n, dest, file, file_id)
    \/ \E n \in QueueNodes : \E file_id \in FileIds : AcceptFile(n, file_id)
    \/ \E n \in QueueNodes : \E msg \in sent : HandleFile(n, msg)
    \/ \E n \in FileReceivers : \E msg \in ForgedChunks(n) : HandleFile(n, msg)

SpecFiles == InitFiles /\ [][NextFiles]_vars

(***************************************************************************)
(* SpecLink: two paired nodes, one of which runs its heartbeat; a call is  *)
(* placed, the connection may close, discovery beacons keep arriving, and  *)
(* time goes on for ever.                                                  *)
(***************************************************************************)
\* the stream of connection c ends (reset by the network or closed by one
\* end): handle_peer_connection's read task breaks out of its loop, the write
\* task ends on its next write, and the frames on their way are lost
Close(c) ==
    /\ c \in 1..Len(conns)
    /\ conns[c].accepted
    /\ ~conns[c].closed
    /\ conns' = [conns EXCEPT ![c].closed = TRUE]
    /\ wq' = [h \in DOMAIN wq |-> IF h[1] = c THEN <<>> ELSE wq[h]]
    /\ UNCHANGED <<now, routervars, peers, inbound_senders, known_gateways,
                   active_call, incoming, announce, events, nextId, sent, handledFrom, heartbeat,
                   file_mgr, disk, procvars>>

\* an Instant, one heartbeat interval further in the past; Instants older
\* than MaxPeerTime are told apart no further
Earlier(t) ==
    IF t = Never THEN Never
    ELSE IF t < HEARTBEAT_INTERVAL THEN 0 ELSE t - HEARTBEAT_INTERVAL

\* time passes in SpecLink, under the conditions of PeerTick; once the clock
\* has reached MaxPeerTime every Instant the nodes hold moves back by one
\* interval instead, which leaves every elapsed() below MaxPeerTime as it is
LinkTick ==
    /\ \A n \in HeartbeatNodes : heartbeat[n] > now
    /\ Quiescent
    /\ \A n \in Nodes : announce[n] = <<>>
    /\ IF now + HEARTBEAT_INTERVAL <= MaxPeerTime
       THEN /\ now' = now + HEARTBEAT_INTERVAL
            /\ UNCHANGED <<routervars, netvars, procvars>>
       ELSE /\ now' = now
            /\ peers' = [n \in Nodes |->
                  {[p EXCEPT !.last_seen = Earlier(@)] : p \in peers[n]}]
            /\ heartbeat' = [n \in Nodes |-> Earlier(heartbeat[n])]
            /\ router' = [n \in Nodes |->
                  [router[n] EXCEPT !.seen_times =
                      [i \in 1..Len(@) |-> [@[i] EXCEPT !.time = Earlier(@)]]]]
            /\ admitted' = [n \in Nodes |-> [id \in MsgIds |-> Earlier(admitted[n][id])]]
            /\ UNCHANGED <<ret, inbound_senders, known_gateways, active_call, conns, wq,
                           incoming, announce, events, nextId, sent, handledFrom,
                           file_mgr, disk, procvars>>

InitLink == InitTopology(Pair)

NextLink ==
    \/ \E n \in PeerNodes : \E p \in PeerNodes \ {n} : \E g \in PeerInternet : Discovered(n, p, g)
    \/ \E c \in 1..MaxConns : Accept(c)
    \/ \E n \in PeerNodes : HandleInbound(n)
    \/ \E h \in DOMAIN wq : ReadFrame(h)
    \/ \E n \in PeerNodes : HandleIncoming(n)
    \/ \E n \in HeartbeatNodes : Heartbeat(n)
    \/ \E n \in HeartbeatNodes : \E peer \in PeerNodes \ {n} : StartVoiceCall(n, peer)
    \/ \E c \in 1..MaxConns : Close(c)
    \/ LinkTick

\* the tasks of a node are scheduled fairly and its timers fire: a listener
\* that can accept does, a read task with a frame to read reads it, the
\* orchestrator takes what is ready on its channels, and time goes on.  No
\* fairness is asked of discovery, of the applications or of the network.
SpecLink ==
    /\ InitLink
    /\ [][NextLink]_vars
    /\ WF_vars(\E c \in 1..MaxConns : Accept(c))
    /\ WF_vars(\E n \in PeerNodes : HandleInbound(n))
    /\ WF_vars(\E h \in DOMAIN wq : ReadFrame(h))
    /\ WF_vars(\E n \in PeerNodes : HandleIncoming(n))
    /\ WF_vars(\E n \in HeartbeatNodes : Heartbeat(n))
    /\ WF_vars(LinkTick)

(***************************************************************************)
(* SpecLife: the life of a node.  Nodes 1 and 2 are paired; the            *)
(* application of node 2 submits commands, some of which fail validation,  *)
(* and in the end Shutdown or Nuke; a third peer sends node 2 file frames  *)
(* of its own making; the node is then started again on the same key path. *)
(* A signing key is named by the NodeId it yields.  The model follows the  *)
(* second run of a node as far as its Started event.                       *)
(***************************************************************************)
MaxLifeMsgs == 2
LifeNodes == {2}
\* MeshMessage::call_end and MeshMessage::voice_stream
CallEnd(sender, dest, id) == MeshMessage("CallEnd", sender, id, 2, dest, "stream")
VoiceStream(sender, dest, id) == MeshMessage("VoiceStream", sender, id, 2, dest, "frame")

\* the orchestrator task of node n is in its loop
Running(n) == orch[n] = "running"

\* NodeCommand::EndVoiceCall
EndVoiceCall(n) ==
    /\ IF active_call[n] # NoActiveCall
       THEN LET msg == CallEnd(n, active_call[n].peer, nextId)
            IN  /\ active_call' = [active_call EXCEPT ![n] = NoActiveCall]
                /\ wq' = SendAll(wq, AllSenders(n), Frame(msg, 0))
                /\ sent' = sent \cup {msg}
                /\ nextId' = nextId + 1
       ELSE UNCHANGED <<active_call, wq, sent, nextId>>
    /\ UNCHANGED <<now, routervars, peers, inbound_senders, known_gateways,
                   conns, incoming, announce, events, handledFrom, heartbeat,
                   file_mgr, disk, procvars>>

\* NodeCommand::SendAudioFrame: the frame goes to the writer queue of the
\* peer named in the command only
SendAudioFrame(n, peer) ==
    /\ IF active_call[n] # NoActiveCall /\ PeerContains(peers[n], peer)
       THEN LET msg == VoiceStream(n, peer, nextId)
            IN  /\ wq' = SendAll(wq, {PeerGet(peers[n], peer).sender}, Frame(msg, 0))
                /\ sent' = sent \cup {msg}
                /\ nextId' = nextId + 1
       ELSE UNCHANGED <<wq, sent, nextId>>
    /\ UNCHANGED <<now, routervars, peers, inbound_senders, known_gateways, active_call,
                   conns, incoming, announce, events, handledFrom, heartbeat,
                   file_mgr, disk, procvars>>

\* NodeIdentity::secure_delete: overwrites and unlinks the file at key_path
SecureDelete(file) == NoKeyFile

\* a Nuke that leaves the key file where it is
NukeKeepsKey(n) ==
    /\ shutdown' = [shutdown EXCEPT ![n] = TRUE]
    /\ events' = Emit(events, n, <<[ev |-> "Nuked"]>>)
    /\ orch' = [orch EXCEPT ![n] = "stopped"]
    /\ UNCHANGED <<now, routervars, peers, inbound_senders, known_gateways, active_call,
                   conns, wq, incoming, announce, nextId, sent, handledFrom, heartbeat,
                   file_mgr, disk, key_file, tasks, identity, generated, read_ended,
                   write_ended, crypto, sending>>
\* NodeCommand::Nuke
Nuke(n) ==
    /\ key_file' = [key_file EXCEPT ![n] = SecureDelete(@)]
    /\ shutdown' = [shutdown EXCEPT ![n] = TRUE]
    /\ events' = Emit(events, n, <<[ev |-> "Nuked"]>>)
    /\ orch' = [orch EXCEPT ![n] = "stopped"]
    /\ UNCHANGED <<now, routervars, peers, inbound_senders, known_gateways, active_call,
                   conns, wq, incoming, announce, nextId, sent, handledFrom, heartbeat,
                   file_mgr, disk, tasks, identity, generated, read_ended,
                   write_ended, crypto, sending>>

\* a Shutdown after which the loop goes on
ShutdownNoBreak(n) ==
    /\ shutdown' = [shutdown EXCEPT ![n] = TRUE]
    /\ events' = Emit(events, n, <<[ev |-> "Stopped"]>>)
    /\ UNCHANGED <<now, routervars, peers, inbound_senders, known_gateways, active_call,
                   conns, wq, incoming, announce, nextId, sent, handledFrom, heartbeat,
                   file_mgr, disk, orch, key_file, tasks, identity, generated, read_ended,
                   write_ended, crypto, sending>>
\* NodeCommand::Shutdown
Shutdown(n) ==
    /\ shutdown' = [shutdown EXCEPT ![n] = TRUE]
    /\ events' = Emit(events, n, <<[ev |-> "Stopped"]>>)
    /\ orch' = [orch EXCEPT ![n] = "stopped"]
    /\ UNCHANGED <<now, routervars, peers, inbound_senders, known_gateways, active_call,
                   conns, wq, incoming, announce, nextId, sent, handledFrom, heartbeat,
                   file_mgr, disk, key_file, tasks, identity, generated, read_ended,
                   write_ended, crypto, sending>>

\* shutdown_rx.changed() is ready in a task of node n: the flag was set, or
\* the orchestrator task is over and has dropped shutdown_tx
ShutdownSeen(n) == shutdown[n] \/ ~Running(n)

\* one of the three tasks of node n that watch the flag (the listener task of
\* start_listener, the sender and the listener task of DiscoveryService::start)
\* takes the shutdown branch of its select! and breaks
TaskExit(n, task) ==
    /\ tasks[n][task] = "running"
    /\ ShutdownSeen(n)
    /\ tasks' = [tasks EXCEPT ![n][task] = "ended"]
    /\ UNCHANGED <<now, routervars, netvars, orch, shutdown, key_file, identity,
                   generated, read_ended, write_ended, crypto, sending>>

\* a key SigningKey::generate(OsRng) has not produced before
FreshKey == Cardinality(Nodes) + generated + 1

\* NodeIdentity::load_or_create: [key |-> the key of the identity returned,
\* file |-> the file afterwards, made |-> the number of keys generated]
LoadOrCreate(file, fresh) ==
    IF file # NoKeyFile
    THEN [key |-> file, file |-> file, made |-> 0]
    ELSE [key |-> fresh, file |-> fresh, made |-> 1]

\* start_mesh_node on the key path of node n, once its orchestrator is over
Start(n) ==
    LET r == LoadOrCreate(key_file[n], FreshKey)
    IN  /\ orch[n] \in {"stopped", "panicked"}
        /\ identity' = [identity EXCEPT ![n] = r.key]
        /\ key_file' = [key_file EXCEPT ![n] = r.file]
        /\ generated' = generated + r.made
        /\ events' = Emit(events, n, <<[ev |-> "Started", node_id |-> r.key]>>)
        /\ orch' = [orch EXCEPT ![n] = "restarted"]
        /\ UNCHANGED <<now, routervars, peers, inbound_senders, known_gateways,
                       active_call, conns, wq, incoming, announce, nextId, sent,
                       handledFrom, heartbeat, file_mgr, disk, shutdown, tasks,
                       read_ended, write_ended, crypto, sending>>

\* the files the application of SpecLife names in SendFile: a file of one
\* byte, a path with no file and a file above MAX_FILE_SIZE
LifeFiles ==
    {[name |-> "f", data |-> <<0>>], [name |-> NoSuchPath, data |-> <<>>],
     [name |-> "f", data |-> [i \in 1..(MAX_FILE_SIZE + 1) |-> 0]]}

\* the FileOffer frames another peer (node 3) can make up for node n: the
\* size_bytes of the payload is whatever the peer wrote
ForgedOffers(n) ==
    {FileOfferMsg(3, n, 0, [file_id |-> f, filename |-> "f", size_bytes |-> z,
                            chunk_count |-> 1, sha256_hash |-> Sha256(<<>>)]) :
        f \in FileIds, z \in {0, ISIZE_MAX + 1}}

\* the three tasks of node n that watch the flag are over
TasksEnded(n) ==
    \A task \in DOMAIN tasks[n] : tasks[n][task] = "ended"

\* a command is taken off command_rx
Command(n) == Running(n) /\ nextId <= MaxLifeMsgs /\ Quiescent

InitLife == InitTopology(Pair)

NextLife ==
    \/ \E n \in LifeNodes : \E peer \in QueueNodes \ {n} :
          Command(n) /\ StartVoiceCall(n, peer)
    \/ \E n \in LifeNodes : Command(n) /\ EndVoiceCall(n)
    \/ \E n \in LifeNodes : \E peer \in QueueNodes \ {n} :
          Command(n) /\ SendAudioFrame(n, peer)
    \/ \E n \in LifeNodes : \E dest \in QueueNodes \ {n} : \E file \in LifeFiles :
          \E file_id \in FileIds : Command(n) /\ SendFile(n, dest, file, file_id)
    \/ \E n \in LifeNodes : \E file_id \in FileIds : Command(n) /\ AcceptFile(n, file_id)
    \/ \E n \in LifeNodes : Running(n) /\ Shutdown(n)
    \/ \E n \in LifeNodes : Running(n) /\ Nuke(n)
    \/ \E n \in LifeNodes : \E msg \in ForgedOffers(n) \cup ForgedChunks(n) :
          Running(n) /\ HandleFile(n, msg)
    \/ \E h \in DOMAIN wq : ReadFrame(h)
    \/ \E n \in QueueNodes : Running(n) /\ HandleIncoming(n)
    \/ \E n \in LifeNodes : \E p \in QueueNodes : \E g \in PeerInternet :
          Running(n) /\ Discovered(n, p, g)
    \/ \E n \in LifeNodes : Command(n) /\ Heartbeat(n)
    \/ \E n \in LifeNodes :
          \E task \in DOMAIN tasks[n] : TaskExit(n, task)
    \/ \E n \in LifeNodes : TasksEnded(n) /\ Start(n)

\* a task whose shutdown branch is ready takes it: select! picks among the
\* ready branches at random, and the branch stays ready until it is taken
SpecLife ==
    /\ InitLife
    /\ [][NextLife]_vars
    /\ \A n \in LifeNodes :
          \A task \in {"listener", "discovery_sender", "discovery_listener"} :
             WF_vars(TaskExit(n, task))

(***************************************************************************)
(* SpecConn: the read and the write task of a connection.  A process that  *)
(* is not a node connects to node 1 and writes frames of its own making,   *)
(* some with an oversized length prefix, some with a body that does not    *)
(* deserialise; the application of node 1 may submit Shutdown.             *)
(***************************************************************************)
MaxWire == 3
MaxWireConns == 1
ConnNodes == {1}
\* what the foreign process writes: a KeyExchange under NodeId 3, or a frame
\* that is not the to_frame of a message
WireFrames(p) ==
    {Frame(KeyExchangeMsg(3, p, PublicKey(Foreign)), 0),
     RawFrame("Oversized"), RawFrame("Undecodable")}

\* a foreign process connects to node p and writes the frames of script
WireConnect(p, script) ==
    LET c == Len(conns) + 1
    IN  /\ Len(conns) < MaxConns
        /\ conns' = Append(conns, [from |-> Foreign, to |-> p, accepted |-> FALSE, closed |-> FALSE])
        /\ wq' = [h \in DOMAIN wq \cup {<<c, Foreign>>, <<c, p>>} |->
                    IF h = <<c, Foreign>> THEN script
                    ELSE IF h \in DOMAIN wq THEN wq[h] ELSE <<>>]
        /\ UNCHANGED <<now, routervars, peers, inbound_senders, known_gateways,
                       active_call, incoming, announce, events, nextId, sent, handledFrom,
                       heartbeat, file_mgr, disk, procvars>>

\* a clone of the sender of writer queue h = <<c, n>> is alive: in the peer
\* registry, among the inbound senders, or in an InboundConnection still
\* queued, all of which the orchestrator task of n owns
SenderHeld(h) ==
    /\ Running(h[2])
    /\ \/ \E p \in peers[h[2]] : p.sender = h
       \/ \E e \in inbound_senders[h[2]] : e.sender = h
       \/ \E i \in 1..Len(announce[h[2]]) : announce[h[2]][i].sender = h

\* the write task of handle h ends: write_rx.recv() returns None once every
\* sender of the queue is dropped
WriterExit(h) ==
    /\ h \in DOMAIN wq
    /\ h \notin write_ended
    /\ conns[h[1]].accepted
    /\ ~SenderHeld(h)
    /\ write_ended' = write_ended \cup {h}
    /\ UNCHANGED <<now, routervars, netvars, orch, shutdown, tasks, key_file, identity,
                   generated, read_ended, crypto, sending>>

NextConn ==
    \/ \E p \in ConnNodes : \E script \in [1..MaxWire -> WireFrames(p)] :
          Len(conns) < MaxWireConns /\ WireConnect(p, script)
    \/ \E c \in 1..MaxConns : Accept(c)
    \/ \E n \in ConnNodes : Running(n) /\ HandleInbound(n)
    \/ \E h \in DOMAIN wq : ReadFrame(h)
    \/ \E n \in ConnNodes : Running(n) /\ HandleIncoming(n)
    \/ \E c \in 1..MaxConns : ForeignRead(c)
    \/ \E n \in ConnNodes : Running(n) /\ Shutdown(n)
    \/ \E h \in DOMAIN wq : h[2] \in ConnNodes /\ WriterExit(h)

\* a write task whose queue has lost its last sender is woken and ends; the
\* runtime runs a task that is ready
SpecConn ==
    /\ Init
    /\ [][NextConn]_vars
    /\ \A c \in 1..MaxConns : \A n \in ConnNodes : WF_vars(WriterExit(<<c, n>>))

(***************************************************************************)
(* SpecCrypto: SessionKeys::encrypt and decrypt.  A byte is 0 or 1; the    *)
(* nonce has NONCE_LEN bytes; the Poly1305 tag, the last part of the       *)
(* ciphertext, names the key, the nonce and the bytes it authenticates, so *)
(* that it verifies for these and for nothing else.                        *)
(***************************************************************************)
NONCE_LEN == 2
MaxPlain == 2
\* the X25519 secrets of the specification
Secrets == {1, 2, 3}

\* ChaCha20: byte i of the key stream of key and nonce
KeyStream(key, nonce, i) ==
    (Cardinality(key) + Cardinality({k \in key : k % 2 = 1}) + nonce[1] + i * nonce[NONCE_LEN]) % 2
\* ChaCha20: the bytes of text combined with the key stream (its own inverse)
Cipher(key, nonce, text) ==
    [i \in 1..Len(text) |-> (text[i] + KeyStream(key, nonce, i)) % 2]
\* Poly1305 over the encrypted bytes under key and nonce
Tag(key, nonce, bytes) == <<"tag", key, nonce, bytes>>
\* a tag that verifies for nothing
BadTag == <<"tag", {}, <<>>, <<>>>>

\* SessionKeys::encrypt with the nonce OsRng produced: the nonce, then the
\* ciphertext, whose last part is the tag
Encrypt(session, plaintext, nonce) ==
    LET bytes == Cipher(session.shared_key, nonce, plaintext)
    IN  [bytes |-> nonce \o bytes, tag |-> Tag(session.shared_key, nonce, bytes)]

NoPlain == [ok |-> FALSE, plaintext |-> <<>>]
\* SessionKeys::decrypt: too short for a nonce is an error; the nonce is the
\* first NONCE_LEN bytes, the rest goes to the cipher, which fails unless the
\* tag verifies
Decrypt(session, data) ==
    IF Len(data.bytes) < NONCE_LEN
    THEN NoPlain
    ELSE LET nonce == SubSeq(data.bytes, 1, NONCE_LEN)
             ciphertext == SubSeq(data.bytes, NONCE_LEN + 1, Len(data.bytes))
         IN  IF data.tag = Tag(session.shared_key, nonce, ciphertext)
             THEN [ok |-> TRUE,
                   plaintext |-> Cipher(session.shared_key, nonce, ciphertext)]
             ELSE NoPlain

\* data with the byte at position i altered; the positions after the bytes
\* are those of the tag
Alter(data, i) ==
    IF i <= Len(data.bytes)
    THEN [data EXCEPT !.bytes[i] = 1 - @]
    ELSE [data EXCEPT !.tag = BadTag]

\* the holder of secret a encrypts plaintext for the holder of secret b
CryptoEncrypt(a, b, plaintext, nonce) ==
    /\ crypto = NoCrypto
    /\ crypto' = [op |-> "encrypted", a |-> a, b |-> b, plaintext |-> plaintext,
                  altered |-> FALSE,
                  data |-> Encrypt(FromExchange(a, PublicKey(b)), plaintext, nonce)]
    /\ UNCHANGED <<now, routervars, netvars, orch, shutdown, tasks, key_file, identity,
                   generated, read_ended, write_ended, sending>>

\* a byte of the ciphertext is altered on its way
CryptoAlter(i) ==
    /\ crypto.op = "encrypted"
    /\ ~crypto.altered
    /\ i \in 1..(Len(crypto.data.bytes) + 1)
    /\ crypto' = [crypto EXCEPT !.altered = TRUE, !.data = Alter(@, i)]
    /\ UNCHANGED <<now, routervars, netvars, orch, shutdown, tasks, key_file, identity,
                   generated, read_ended, write_ended, sending>>

\* the holder of secret c decrypts with the session it has with the holder
\* of the public key of d
CryptoDecrypt(c, d) ==
    /\ crypto.op = "encrypted"
    /\ crypto' = [op |-> "decrypted", a |-> crypto.a, b |-> crypto.b,
                  plaintext |-> crypto.plaintext, altered |-> crypto.altered,
                  data |-> crypto.data, c |-> c, d |-> d,
                  result |-> Decrypt(FromExchange(c, PublicKey(d)), crypto.data)]
    /\ UNCHANGED <<now, routervars, netvars, orch, shutdown, tasks, key_file, identity,
                   generated, read_ended, write_ended, sending>>

NextCrypto ==
    \/ \E a, b \in Secrets : \E plaintext \in BytesUpTo(MaxPlain) :
          \E nonce \in [1..NONCE_LEN -> Bytes] : CryptoEncrypt(a, b, plaintext, nonce)
    \/ \E i \in 1..(NONCE_LEN + MaxPlain + 1) : CryptoAlter(i)
    \/ \E c, d \in Secrets : CryptoDecrypt(c, d)

SpecCrypto == Init /\ [][NextCrypto]_vars

(***************************************************************************)
(* SpecTouch: the meshes of SpecMesh with time going on between the        *)
(* messages, so that a record that is refreshed differs from one that is   *)
(* not.                                                                    *)
(***************************************************************************)
\* time goes on while nothing is in flight
TouchTick == Quiescent /\ Tick

NextTouch ==
    \/ NextMesh
    \/ TouchTick

SpecTouch == InitMesh /\ [][NextTouch]_vars

(***************************************************************************)
(* Properties of the router, under SpecRouter                              *)
(***************************************************************************)
\* the MessageIds of the seen-cache entries of r that are not older than
\* SEEN_EXPIRY at time t
Unexpired(r, t) ==
    {r.seen_times[i].id : i \in {j \in 1..Len(r.seen_times) : t - r.seen_times[j].time <= SEEN_EXPIRY}}

\* C2: once should_process has returned true for a MessageId, it returns
\* false for every message under that MessageId for as long as no more than
\* SEEN_EXPIRY (300 s) has passed since, whatever should_process,
\* prepare_forward and cleanup calls came in between.
C2_DedupIdempotent ==
    \A m \in RouterMsgs :
        (/\ admitted[RouterNode][m.msg_id] # Never
         /\ now - admitted[RouterNode][m.msg_id] <= SEEN_EXPIRY)
        => ~ShouldProcess(router[RouterNode], m, now).ok

\* a should_process call for a message of another node with TTL > 0 has just
\* returned false exactly SEEN_EXPIRY after the MessageId was admitted, the
\* seen-cache holding more than one entry
C2_Witness ==
    /\ ret.op = "should_process"
    /\ ~ret.ok
    /\ ret.sender # RouterNode
    /\ ret.ttl > 0
    /\ admitted[RouterNode][ret.id] # Never
    /\ now - admitted[RouterNode][ret.id] = SEEN_EXPIRY
    /\ Cardinality(router[RouterNode].seen) > 1

\* C3: should_process returns false for every message whose sender is the
\* router's own NodeId, in every router state, for every type, TTL and
\* destination.
C3_SelfExclusion ==
    \A m \in RouterMsgs :
        m.sender_id = router[RouterNode].our_node_id
        => ~ShouldProcess(router[RouterNode], m, now).ok

\* a should_process call for a message of the own node, with TTL > 0 and a
\* MessageId that the seen-cache does not hold, has just returned false while
\* the cache had room
C3_Witness ==
    /\ ret.op = "should_process"
    /\ ~ret.ok
    /\ ret.sender = router[RouterNode].our_node_id
    /\ ret.ttl > 0
    /\ ret.id \notin router[RouterNode].seen
    /\ Cardinality(router[RouterNode].seen) < MAX_SEEN_CACHE

\* C7 as stated: should_process returns true exactly when the sender is not
\* the own NodeId, the TTL is above 0 and the MessageId is not in the
\* seen-cache, in every router state.
C7_AsStated ==
    \A m \in RouterMsgs :
        ShouldProcess(router[RouterNode], m, now).ok
        <=> (/\ m.sender_id # router[RouterNode].our_node_id
             /\ m.ttl > 0
             /\ m.msg_id \notin router[RouterNode].seen)

\* C7: should_process returns true exactly when the sender is not the own
\* NodeId, the TTL is above 0, the MessageId is not in the seen-cache and
\* either the message is an SOS or the seen-cache holds fewer than
\* MAX_SEEN_CACHE entries that have not expired.
C7_ShouldProcessIff ==
    \A m \in RouterMsgs :
        ShouldProcess(router[RouterNode], m, now).ok
        <=> (/\ m.sender_id # router[RouterNode].our_node_id
             /\ m.ttl > 0
             /\ m.msg_id \notin router[RouterNode].seen
             /\ \/ m.msg_type = "SOS"
                \/ Cardinality(Unexpired(router[RouterNode], now)) < MAX_SEEN_CACHE)

\* a should_process call for a message of another node, with TTL > 0 and a
\* MessageId that the seen-cache does not hold, has just returned false: the
\* cache is at its capacity
C7_Witness ==
    /\ ret.op = "should_process"
    /\ ~ret.ok
    /\ ret.sender # router[RouterNode].our_node_id
    /\ ret.ttl > 0
    /\ ret.id \notin router[RouterNode].seen
    /\ Cardinality(router[RouterNode].seen) >= MAX_SEEN_CACHE

\* C8: while the seen-cache holds MAX_SEEN_CACHE or more entries that have
\* not expired, should_process admits an SOS of another node with an unseen
\* MessageId and TTL > 0, and the copy prepare_forward then makes is the SOS
\* with its TTL lowered by 1; it rejects a Text under the same conditions.
C8_SosPriority ==
    LET r == router[RouterNode]
    IN  \A m \in RouterMsgs :
            (/\ Cardinality(Unexpired(r, now)) >= MAX_SEEN_CACHE
             /\ m.sender_id # r.our_node_id
             /\ m.ttl > 0
             /\ m.msg_id \notin r.seen)
            => LET res == ShouldProcess(r, m, now)
               IN  /\ m.msg_type = "SOS" =>
                         /\ res.ok
                         /\ m.msg_id \in res.router.seen
                         /\ ShouldForward(res.router, m)
                         /\ PrepareForward(res.router, m).msg = [m EXCEPT !.ttl = m.ttl - 1]
                   /\ m.msg_type = "Text" => ~res.ok

\* should_process has just admitted a message into a seen-cache that was at
\* its capacity of unexpired entries: the cache now holds one entry more
\* than MAX_SEEN_CACHE, none of them expired
C8_Witness ==
    /\ ret.op = "should_process"
    /\ ret.ok
    /\ ret.sender # router[RouterNode].our_node_id
    /\ Cardinality(router[RouterNode].seen) = MAX_SEEN_CACHE + 1
    /\ Unexpired(router[RouterNode], now) = router[RouterNode].seen

(***************************************************************************)
(* Properties of the flood, under SpecMesh                                 *)
(***************************************************************************)
\* the direct Texts the applications sent
DirectTexts == {m \in sent : m.msg_type = "Text" /\ m.destination # NoDest}

\* the positions in node n's event stream of the application events for m
AppEventsAt(n, m) ==
    {i \in 1..Len(events[n]) :
        "msg_id" \in DOMAIN events[n][i] /\ events[n][i].msg_id = m.msg_id}

\* the frame the orchestrator of n handles in this step, when it handles one
Handling(n) == incoming[n] # <<>> /\ incoming'[n] = Tail(incoming[n])

\* C1: for a direct Text of node A to node C, C emits MessageReceived with
\* sender A at most once, and exactly once when every copy has been handled;
\* no other node emits an application event for that message.
C1_DirectDeliveredOnce ==
    \A m \in DirectTexts : \A n \in Nodes :
        IF n = m.destination
        THEN /\ Cardinality(AppEventsAt(n, m)) <= 1
             /\ \A i \in AppEventsAt(n, m) :
                   events[n][i] = [ev |-> "MessageReceived", sender_id |-> m.sender_id,
                                   msg_id |-> m.msg_id]
             /\ Quiescent => Cardinality(AppEventsAt(n, m)) = 1
        ELSE AppEventsAt(n, m) = {}

\* a direct Text whose destination C is no peer of its sender: C has emitted
\* its MessageReceived, a further copy is waiting in C's inbound queue, and a
\* relay has processed the message without emitting anything
C1_Witness ==
    \E m \in DirectTexts :
        LET c == m.destination
        IN  /\ ~PeerContains(peers[m.sender_id], c)
            /\ Cardinality(AppEventsAt(c, m)) = 1
            /\ incoming[c] # <<>>
            /\ Head(incoming[c]).msg.msg_id = m.msg_id
            /\ \E b \in Nodes \ {c, m.sender_id} :
                  admitted[b][m.msg_id] # Never /\ events[b] = <<>>

\* C4 as stated: a node that forwards a received message enqueues the copy
\* on the writer queue of every registered peer except the one of the
\* connection the message arrived over, and on no other queue.
C4_SplitHorizon ==
    [][\A n \in Nodes :
          (Handling(n) /\ wq' # wq)
          => \A h \in DOMAIN wq :
                wq'[h] # wq[h]
                <=> (h \in AllSenders(n) /\ h # <<Head(incoming[n]).conn, n>>)]_vars

\* the message of frame f is a message the applications sent, with the TTL
\* lowered by the number of forwards the frame went through and nothing else
\* changed
OnChain(f) ==
    \E m \in sent : f.hops <= m.ttl /\ f.msg = [m EXCEPT !.ttl = m.ttl - f.hops]

\* C5: the TTL a message carries after k forwards is the TTL its originator
\* gave it minus k, and no other field has changed; a message that arrives
\* with TTL 0 is not forwarded: decrement_ttl returns false and
\* prepare_forward returns none.
C5_TtlMonotone ==
    /\ \A h \in DOMAIN wq : \A i \in 1..Len(wq[h]) : OnChain(wq[h][i])
    /\ \A n \in Nodes : \A i \in 1..Len(incoming[n]) :
          /\ OnChain(incoming[n][i])
          /\ incoming[n][i].msg.ttl = 0 =>
                /\ ~DecrementTtlOk(incoming[n][i].msg)
                /\ PrepareForward(router[n], incoming[n][i].msg).msg = NoMsg

\* a Text that went through two forwards waits in an inbound queue with TTL 8
C5_Witness ==
    \E n \in Nodes :
        /\ incoming[n] # <<>>
        /\ Head(incoming[n]).hops = 2
        /\ Head(incoming[n]).msg.msg_type = "Text"
        /\ Head(incoming[n]).msg.ttl = 8

\* the message the orchestrator of n takes off its inbound queue is new to
\* its router and comes from another node
FreshAt(n, msg) == msg.sender_id # n /\ msg.msg_id \notin router[n].seen

\* C6 as stated, the part on the TTL-0 copy: the node that receives the copy
\* with TTL 0 processes it, and emits the application event when the message
\* is for it.
C6_AsStated ==
    [][\A n \in Nodes :
          Handling(n)
          => LET msg == Head(incoming[n]).msg
             IN  (msg.ttl = 0 /\ FreshAt(n, msg) /\ IsForUs(router[n], msg))
                 => events'[n] = events[n] \o AppEvents(msg)]_vars

\* C6: a new message that arrives with TTL 1 is processed (its application
\* event is emitted when it is for the node) and, when it is to be
\* forwarded, enqueued once on the queue of each forward target as a copy
\* with TTL 0; the node that receives a copy with TTL 0 drops it: it emits no
\* event, even when the message is for it, forwards nothing and leaves its
\* router as it was.
C6_TtlOneThenDropped ==
    [][\A n \in Nodes :
          Handling(n)
          => LET inc == Head(incoming[n])
                 msg == inc.msg
                 copy == Frame([msg EXCEPT !.ttl = 0], inc.hops + 1)
             IN  /\ msg.ttl = 0 =>
                       /\ events' = events
                       /\ wq' = wq
                       /\ router' = router
                       /\ active_call' = active_call
                 /\ (msg.ttl = 1 /\ FreshAt(n, msg)) =>
                       /\ events'[n] = events[n] \o
                             (IF IsForUs(router[n], msg) THEN AppEvents(msg) ELSE <<>>)
                       /\ \A h \in DOMAIN wq :
                             wq'[h] = IF ShouldForward(router[n], msg)
                                         /\ h \in ForwardTargets(peers[n], msg)
                                      THEN Append(wq[h], copy)
                                      ELSE wq[h]]_vars

\* a CallStart reached the last relay with TTL 1, which processed it and
\* forwarded the copy with TTL 0 to the destination, its peer; every frame
\* has been handled, and the destination emitted nothing and its router saw
\* nothing
C6_Witness ==
    \E m \in sent :
        /\ m.msg_type = "CallStart"
        /\ Quiescent
        /\ events[m.destination] = <<>>
        /\ router[m.destination].seen = {}
        /\ active_call[m.destination] = NoActiveCall
        /\ \E n \in Nodes \ {m.destination} :
              /\ admitted[n][m.msg_id] # Never
              /\ router[n].stats.total_hops_observed = 1
              /\ router[n].stats.messages_relayed = 1
              /\ PeerContains(peers[n], m.destination)

(***************************************************************************)
(* Properties of the peer lifecycle, under SpecPeers                       *)
(***************************************************************************)
\* C9 as stated: for every inbound connection, the orchestrator has handled
\* the connection's announce by the time it has handled a frame read from
\* that connection.
C9_AnnounceFirst ==
    \A n \in Nodes : \A c \in handledFrom[n] :
        conns[c].to = n
        => \A i \in 1..Len(announce[n]) : announce[n][i].sender # <<c, n>>

\* C10: the registry of a node holds at most one record per NodeId, and no
\* writer-queue handle is held by two of its records.
C10_OneRecordPerNode ==
    \A n \in Nodes : \A p, q \in peers[n] :
        /\ p.node_id = q.node_id => p = q
        /\ p.sender = q.sender => p = q

\* node 1 holds two records, one over a connection it opened after a
\* discovery and one bound to an inbound connection by a KeyExchange, and
\* its heartbeat has fired more than once
C10_Witness ==
    /\ Cardinality(peers[1]) = 2
    /\ \E p \in peers[1] : conns[p.sender[1]].from = 1
    /\ \E p \in peers[1] : conns[p.sender[1]].to = 1 /\ p.session_keys # NoKeys
    /\ heartbeat[1] > HEARTBEAT_INTERVAL
    /\ now > 0

\* the heartbeat branch of node n runs in this step
HeartbeatStep(n) == heartbeat'[n] # heartbeat[n]

\* the PeerDisconnected events for NodeId id among the events node n emits in
\* this step
Disconnects(n, id) ==
    {i \in (Len(events[n]) + 1)..Len(events'[n]) :
        events'[n][i] = [ev |-> "PeerDisconnected", node_id |-> id]}

C14_KeysAgree ==
    (\A c \in 1..Len(conns) : conns[c].from # Foreign)
    => \A c \in 1..Len(conns) :
          LET a == conns[c].from
              b == conns[c].to
          IN  (/\ c \in handledFrom[b]
               /\ \E c2 \in handledFrom[a] : RemoteOf(<<c2, a>>) = b
               /\ PeerContains(peers[a], b)
               /\ PeerContains(peers[b], a))
              => /\ PeerGet(peers[a], b).session_keys # NoKeys
                 /\ PeerGet(peers[a], b).session_keys.shared_key
                      = PeerGet(peers[b], a).session_keys.shared_key

\* C15 as stated: an enqueue on a per-peer writer queue never blocks the event
\* loop, so a SendBroadcast command that is pending can be carried out at
\* once, whatever the writer queues hold.
C15_NeverBlocks ==
    \A n \in QueueNodes : nextId <= MaxBusyMsgs => ENABLED SendBroadcastNow(n)

\* the MessageReceived events of node n for messages of sender s, in the
\* order n emitted them
ReceivedFrom(n, s) ==
    SelectSeq(events[n], LAMBDA e : e.ev = "MessageReceived" /\ e.sender_id = s)

\* C16: the frames a node enqueues for its peer are handled by the peer in
\* the order of their enqueueing: the peer's application events for the
\* messages of the node follow the order in which the node sent them.
C16_FifoPerConnection ==
    \A n, s \in QueueNodes :
        \A i, j \in 1..Len(ReceivedFrom(n, s)) :
            i < j => ReceivedFrom(n, s)[i].msg_id < ReceivedFrom(n, s)[j].msg_id

\* node 2 has handled two broadcasts of node 1, which alone has sent
C16_Witness ==
    /\ Len(ReceivedFrom(2, 1)) = 2
    /\ Text(2, 1) \notin sent
    /\ Text(2, 2) \notin sent

\* C12 as stated: a heartbeat that evicts the peer of the active call clears
\* the active-call descriptor and emits CallEnded for that peer.
C12_CallInvalidated ==
    [][\A n \in Nodes :
          (/\ HeartbeatStep(n)
           /\ active_call[n] # NoActiveCall
           /\ active_call[n].peer \in Stale(peers[n], PEER_TIMEOUT, now))
          => /\ active_call'[n] = NoActiveCall
             /\ \E i \in (Len(events[n]) + 1)..Len(events'[n]) :
                   events'[n][i].ev = "CallEnded"]_vars

\* node a holds a peer record whose writer handle belongs to connection c,
\* which has closed
Zombie(a, c) ==
    /\ c \in 1..Len(conns)
    /\ conns[c].closed
    /\ \E p \in peers[a] : p.sender = <<c, a>>

\* C13 as stated: once the connection to a registered peer has closed, the
\* peer's record is eventually removed by the node's heartbeat.
C13_ClosedThenRemoved ==
    \A a \in HeartbeatNodes : \A c \in 1..MaxConns : Zombie(a, c) ~> ~Zombie(a, c)

(***************************************************************************)
(* Properties of the file transfer, under SpecFiles                        *)
(***************************************************************************)
\* the file frames that can reach the orchestrator of node n
FileFrames(n) == sent \cup (IF n \in FileReceivers THEN ForgedChunks(n) ELSE {})

\* the sequence numbers of a transfer
Sequences(transfer) == 0..(transfer.metadata.chunk_count - 1)

\* the bytes whose digest the offer of the transfer advertises: the file that
\* was passed to prepare_send
OriginalOf(transfer) == transfer.metadata.sha256_hash[2]

\* chunk d under sequence q is a chunk of the offered file, as sent
Uncorrupted(transfer, q, d) ==
    /\ q \in Sequences(transfer)
    /\ d = ChunksOf(OriginalOf(transfer))[q + 1]

\* the FileComplete events for file_id among the events node n emits in this step
Completes(n, file_id) ==
    {i \in (Len(events[n]) + 1)..Len(events'[n]) :
        events'[n][i].ev = "FileComplete" /\ events'[n][i].file_id = file_id}

NextChunkInOrder(mgr, file_id) ==
    LET transfer == mgr.outgoing[file_id]
        drained == DrainChunks(MarkAccepted(mgr, file_id).mgr, file_id)
    IN  /\ ~transfer.accepted => NextChunk(mgr, file_id).chunk = NoChunk
        /\ Len(drained.chunks) = transfer.metadata.chunk_count
        /\ \A i \in 1..Len(drained.chunks) :
              drained.chunks[i] = [file_id |-> file_id, sequence |-> i - 1,
                                   data |-> transfer.chunks[i]]
        /\ NextChunk(drained.mgr, file_id).chunk = NoChunk

\* the FileChunk frames among the frames fs, in order
ChunkFrames(fs) == SelectSeq(fs, LAMBDA f : f.msg.msg_type = "FileChunk")

\* C18: next_chunk yields nothing before mark_accepted and afterwards the
\* sequences 0 .. chunk_count - 1 in order, each once, then nothing; when the
\* orchestrator handles a FileAccept for an outgoing record it enqueues the
\* chunks 0 .. chunk_count - 1, in order, on every peer's writer queue and
\* removes the record, and a FileAccept for which it holds no record enqueues
\* nothing.
C18_ChunksInOrderOnce ==
    [][/\ \A n \in QueueNodes : \A file_id \in DOMAIN file_mgr[n].outgoing :
             NextChunkInOrder(file_mgr[n], file_id)
       /\ \A n \in QueueNodes : \A file_id \in DOMAIN file_mgr'[n].outgoing :
             NextChunkInOrder(file_mgr'[n], file_id)
       /\ \A n \in QueueNodes : \A msg \in sent :
             (msg.msg_type = "FileAccept" /\ HandleFile(n, msg))
             => LET file_id == msg.payload.file_id
                IN  IF file_id \in DOMAIN file_mgr[n].outgoing
                    THEN LET transfer == file_mgr[n].outgoing[file_id]
                         IN  /\ file_id \notin DOMAIN file_mgr'[n].outgoing
                             /\ \A h \in AllSenders(n) :
                                   /\ Len(wq'[h]) = Len(wq[h]) + transfer.metadata.chunk_count
                                   /\ SubSeq(wq'[h], 1, Len(wq[h])) = wq[h]
                                   /\ \A i \in 1..transfer.metadata.chunk_count :
                                         LET m == wq'[h][Len(wq[h]) + i].msg
                                         IN  /\ m.msg_type = "FileChunk"
                                             /\ m.destination = transfer.dest
                                             /\ m.payload = [file_id |-> file_id,
                                                             sequence |-> i - 1,
                                                             data |-> transfer.chunks[i]]
                    ELSE wq' = wq /\ file_mgr' = file_mgr]_vars

\* node 2 has accepted twice the file of two chunks that node 1 offered; node
\* 1 has enqueued the two chunks for node 2, in order and once, and holds no
\* outgoing record any more
C18_Witness ==
    /\ Cardinality(SentOfType("FileAccept")) = 2
    /\ DOMAIN file_mgr[1].outgoing = {}
    /\ Len(ChunkFrames(wq[<<1, 1>>])) = 2
    /\ ChunkFrames(wq[<<1, 1>>])[1].msg.payload.sequence = 0
    /\ ChunkFrames(wq[<<1, 1>>])[2].msg.payload.sequence = 1

\* C19 as stated: whatever receive_chunk calls an incoming record has seen and
\* sees next, is_incoming_complete is true exactly if the chunk mapping holds
\* every sequence in [0, chunk_count).
C19_CompleteIffAll ==
    \A n \in QueueNodes : \A file_id \in DOMAIN file_mgr[n].incoming :
        \A q \in 0..MaxSeq : \A d \in BytesUpTo(CHUNK_SIZE) :
            LET mgr == ReceiveChunk(file_mgr[n], file_id, q, d).mgr
                transfer == mgr.incoming[file_id]
            IN  IsIncomingComplete(mgr, file_id)
                    <=> Sequences(transfer) \subseteq DOMAIN transfer.chunks

\* the outcome of finalize_incoming for the record of file_id at node n once
\* one more chunk, d under sequence q, has been received
FinalizeAfter(n, file_id, q, d) ==
    FinalizeIncoming(ReceiveChunk(file_mgr[n], file_id, q, d).mgr, file_id, disk[n])

\* the record of file_id at node n once chunk d under q has been received
TransferAfter(n, file_id, q, d) ==
    ReceiveChunk(file_mgr[n], file_id, q, d).mgr.incoming[file_id]

\* every sequence of the transfer is present
AllPresent(transfer) == Sequences(transfer) \subseteq DOMAIN transfer.chunks

FinalizeFails(n, msg) ==
    LET chunk == msg.payload
        rc == ReceiveChunk(file_mgr[n], chunk.file_id, chunk.sequence, chunk.data)
    IN  /\ rc.pct # NoPct
        /\ IsIncomingComplete(rc.mgr, chunk.file_id)
        /\ ~FinalizeIncoming(rc.mgr, chunk.file_id, disk[n]).ok

\* the events of node n that report a chunk after which finalize_incoming
\* ran for file_id and failed: FileProgress at 100 with no FileComplete next
FailedAt(n, file_id) ==
    {i \in 1..Len(events[n]) :
        /\ events[n][i].ev = "FileProgress"
        /\ events[n][i].file_id = file_id
        /\ events[n][i].pct = 100
        /\ ~(/\ i < Len(events[n])
              /\ events[n][i + 1].ev = "FileComplete"
              /\ events[n][i + 1].file_id = file_id)}

\* no FileOffer for file_id has been registered at node n after event i
NotOfferedSince(n, file_id, i) ==
    \A j \in (i + 1)..Len(events[n]) :
        ~(events[n][j].ev = "FileOffered" /\ events[n][j].file_id = file_id)

RECURSIVE TotalLen(_)
TotalLen(chunks) ==
    IF chunks = <<>> THEN 0 ELSE Len(Head(chunks)) + TotalLen(Tail(chunks))

\* the least k with k * CHUNK_SIZE >= len: ceil(len / CHUNK_SIZE)
CeilChunks(len) == CHOOSE k \in 0..len : k * CHUNK_SIZE >= len /\ (k = 0 \/ (k - 1) * CHUNK_SIZE < len)

\* C22: a SendFile command for a file of at most MAX_FILE_SIZE bytes makes
\* prepare_send register an outgoing record that is not accepted, has cursor
\* 0 and chunk_count = max(1, ceil(size / CHUNK_SIZE)), which is the length
\* of its chunk list; every chunk but the last has CHUNK_SIZE bytes, the last
\* at most CHUNK_SIZE, the lengths sum to the size and the chunks
\* concatenate to the file; an empty file has the one chunk <<>>; a larger
\* file registers nothing.
C22_PrepareSendChunks ==
    [][\A n \in FileSenders : \A dest \in FileReceivers : \A file \in Files :
         \A file_id \in FileIds :
          SendFile(n, dest, file, file_id)
          => IF Len(file.data) <= MAX_FILE_SIZE
             THEN /\ file_id \in DOMAIN file_mgr'[n].outgoing
                  /\ LET transfer == file_mgr'[n].outgoing[file_id]
                         count == transfer.metadata.chunk_count
                     IN  /\ ~transfer.accepted
                         /\ transfer.next_chunk = 0
                         /\ transfer.metadata.size_bytes = Len(file.data)
                         /\ count = Max(1, CeilChunks(Len(file.data)))
                         /\ count = Len(transfer.chunks)
                         /\ \A i \in 1..(count - 1) : Len(transfer.chunks[i]) = CHUNK_SIZE
                         /\ Len(transfer.chunks[count]) <= CHUNK_SIZE
                         /\ TotalLen(transfer.chunks) = Len(file.data)
                         /\ Reassemble([q \in 0..(count - 1) |-> transfer.chunks[q + 1]],
                                       0, count) = file.data
                         /\ (file.data = <<>> => transfer.chunks = <<(<<>>)>>)
             ELSE file_mgr' = file_mgr]_vars

\* node 1 holds the outgoing record of a file of three bytes: a full chunk
\* and a last chunk of one byte
C22_Witness ==
    /\ 1 \in DOMAIN file_mgr[1].outgoing
    /\ file_mgr[1].outgoing[1].metadata.size_bytes = 3
    /\ Len(file_mgr[1].outgoing[1].chunks) = 2
    /\ Len(file_mgr[1].outgoing[1].chunks[2]) = 1

(***************************************************************************)
(* Properties of the life of a node, under SpecLife                        *)
(***************************************************************************)
\* the command fails validation at node n
FailsValidation(n) ==
    \/ \E dest \in QueueNodes \ {n}, file \in LifeFiles, file_id \in FileIds :
          /\ Unreadable(file) \/ Len(file.data) > MAX_FILE_SIZE
          /\ SendFile(n, dest, file, file_id)
    \/ \E file_id \in FileIds :
          file_id \notin DOMAIN file_mgr[n].incoming /\ AcceptFile(n, file_id)
    \/ active_call[n] = NoActiveCall /\ EndVoiceCall(n)
    \/ \E peer \in QueueNodes \ {n} :
          active_call[n] = NoActiveCall /\ SendAudioFrame(n, peer)

\* C23: the orchestrator loop of a node ends only in a step that handles a
\* Shutdown or a Nuke command; and a command that fails validation (SendFile
\* of an unreadable or oversize file, AcceptFile of an unknown file_id,
\* EndVoiceCall or SendAudioFrame with no call active) puts no frame on a
\* writer queue, leaves the peer registry, the router and the transfer tables
\* as they were, and leaves the loop running
C23_LoopEndsOnlyOnCommand ==
    [][\A n \in LifeNodes :
          /\ (Running(n) /\ orch'[n] # "running") => (Shutdown(n) \/ Nuke(n))
          /\ (Running(n) /\ FailsValidation(n)) =>
                /\ wq' = wq
                /\ peers' = peers
                /\ routervars' = routervars
                /\ file_mgr' = file_mgr
                /\ orch'[n] = "running"]_vars

\* node n has emitted Stopped
HasStopped(n) == \E i \in 1..Len(events[n]) : events[n][i].ev = "Stopped"

\* seq is the front of longer
IsPrefix(seq, longer) ==
    Len(seq) <= Len(longer) /\ SubSeq(longer, 1, Len(seq)) = seq

\* seq is the back of longer
IsSuffix(seq, longer) ==
    Len(seq) <= Len(longer) /\
    SubSeq(longer, Len(longer) - Len(seq) + 1, Len(longer)) = seq

\* the frames node n has put on writer queues
SentBy(n) == {m \in sent : m.sender_id = n}

\* C24: the step that handles Shutdown at a node emits Stopped and ends the
\* loop; from then on, for as long as the node is not started again, the
\* orchestrator emits no event, takes no frame off its inbound queue and no
\* connection off its announce queue, puts no frame on a writer queue (the
\* writer tasks go on writing what is queued), and its peer registry,
\* gateways, call, router, transfer tables and heartbeat timer stay as they
\* are; and once the flag is set, the listener task and the two discovery
\* tasks of the node all come to an end
C24_ShutdownStops ==
    /\ [][\A n \in LifeNodes :
            /\ Shutdown(n) =>
                  /\ events'[n][Len(events'[n])].ev = "Stopped"
                  /\ orch'[n] = "stopped"
            /\ (HasStopped(n) /\ ~Start(n)) =>
                  /\ events'[n] = events[n]
                  /\ IsPrefix(incoming[n], incoming'[n])
                  /\ IsPrefix(announce[n], announce'[n])
                  /\ SentBy(n)' = SentBy(n)
                  /\ \A h \in DOMAIN wq : h[2] = n => IsSuffix(wq'[h], wq[h])
                  /\ peers'[n] = peers[n]
                  /\ known_gateways'[n] = known_gateways[n]
                  /\ active_call'[n] = active_call[n]
                  /\ router'[n] = router[n]
                  /\ file_mgr'[n] = file_mgr[n]
                  /\ heartbeat'[n] = heartbeat[n]]_vars
    /\ \A n \in LifeNodes : (HasStopped(n) /\ shutdown[n]) ~> TasksEnded(n)

\* node 2 has handled Shutdown, a frame waits on its inbound queue, and its
\* three tasks have ended
C24_Witness ==
    /\ HasStopped(2)
    /\ orch[2] = "stopped"
    /\ incoming[2] # <<>>
    /\ TasksEnded(2)

\* node n has emitted Nuked
HasNuked(n) == \E i \in 1..Len(events[n]) : events[n][i].ev = "Nuked"

Delivers(c, r) ==
    /\ Len(incoming'[r]) = Len(incoming[r]) + 1
    /\ incoming'[r][Len(incoming'[r])].conn = c

\* the frame at the head of writer queue h is the to_frame of a message
WellFormedHead(h) ==
    Head(wq[h]) \notin {RawFrame("Oversized"), RawFrame("Undecodable")}

\* C26: the step in which the reader of a connection reads a length prefix
\* above 1 000 000 delivers nothing to the inbound queue, and no later step
\* delivers a frame of that connection; each well-formed frame the reader
\* reads before that is appended to the inbound queue of its node
C26_OversizeEndsDelivery ==
    [][\A h \in DOMAIN wq : \A r \in ConnNodes :
          (r = RemoteOf(h)) =>
             /\ (ReadFrame(h) /\ Head(wq[h]) = RawFrame("Oversized")) =>
                   /\ incoming' = incoming
                   /\ <<h[1], r>> \in read_ended'
             /\ <<h[1], r>> \in read_ended => ~Delivers(h[1], r)
             /\ (ReadFrame(h) /\ WellFormedHead(h) /\ Running(r)) =>
                   /\ Delivers(h[1], r)
                   /\ incoming'[r][Len(incoming'[r])].msg = Head(wq[h]).msg]_vars

\* the reader of connection 1 at node 1 has delivered a KeyExchange and has
\* then read an oversized length prefix; a well-formed frame written after
\* it is still unread
C26_Witness ==
    /\ <<1, 1>> \in read_ended
    /\ 1 \in handledFrom[1] \/ \E i \in 1..Len(incoming[1]) : incoming[1][i].conn = 1
    /\ wq[<<1, Foreign>>] # <<>>
    /\ Head(wq[<<1, Foreign>>]).msg.msg_type = "KeyExchange"

\* C27: the step in which the reader of a connection reads a frame whose
\* body does not deserialise into a MeshMessage delivers nothing to the
\* inbound queue and ends the reader, the connection being closed; once the
\* reader has ended no step delivers a frame of that connection
C27_UndecodableIsFatal ==
    [][\A h \in DOMAIN wq : \A r \in ConnNodes :
          (r = RemoteOf(h)) =>
             /\ (ReadFrame(h) /\ Head(wq[h]) = RawFrame("Undecodable")) =>
                   /\ incoming' = incoming
                   /\ <<h[1], r>> \in read_ended'
             /\ <<h[1], r>> \in read_ended => ~Delivers(h[1], r)]_vars

\* C30: on every connection of a node, once the read task has ended the
\* write task comes to an end, and from then on no frame is put on the writer
\* queue; and once the write task has ended the read task comes to an end
C30_SiblingEnds ==
    /\ \A c \in 1..MaxConns : \A n \in ConnNodes :
          /\ (<<c, n>> \in read_ended) ~> (<<c, n>> \in write_ended)
          /\ (<<c, n>> \in write_ended) ~> (<<c, n>> \in read_ended)
    /\ [][\A h \in DOMAIN wq :
            (h \in read_ended /\ h \in write_ended) => IsSuffix(wq'[h], wq[h])]_vars

(***************************************************************************)
(* Discovery announcements for known peers, under SpecPeers                *)
(***************************************************************************)
\* the number of PeerConnected events in es
PeerConnectedCount(es) ==
    Cardinality({i \in 1..Len(es) : es[i].ev = "PeerConnected"})

\* C28: a discovery announcement handled at a node for a NodeId that is in
\* its peer registry opens no connection, enqueues no frame (so no
\* KeyExchange), leaves the registry with the same NodeIds and as many
\* records, and emits no PeerConnected, however many announcements came
\* before; so does an announcement that carries the node's own NodeId
C28_KnownPeerNotReconnected ==
    [][\A n \in PeerNodes : \A p \in PeerNodes : \A g \in PeerInternet :
          (Discovered(n, p, g) /\ (p = n \/ PeerContains(peers[n], p))) =>
             /\ conns' = conns
             /\ wq' = wq
             /\ {q.node_id : q \in peers'[n]} = {q.node_id : q \in peers[n]}
             /\ Cardinality(peers'[n]) = Cardinality(peers[n])
             /\ PeerConnectedCount(events'[n]) = PeerConnectedCount(events[n])]_vars

\* nodes 1 and 2 were connected at time 0 and there is no other connection;
\* at time 10, before node 1 has sent its heartbeat, node 2 has handled an
\* announcement of node 1, which refreshed its record of node 1
C28_Witness ==
    /\ now = HEARTBEAT_INTERVAL
    /\ heartbeat[1] <= now
    /\ Len(conns) = 1
    /\ \E q \in peers[1] : q.node_id = 2 /\ q.last_seen = 0
    /\ \E q \in peers[2] : q.node_id = 1 /\ q.last_seen = now
    /\ Cardinality(peers[2]) = 1
    /\ PeerConnectedCount(events[2]) = 1

(***************************************************************************)
(* Properties of the session keys, under SpecCrypto                        *)
(***************************************************************************)
\* C29: what was encrypted with the key derived from secret a and the
\* public key of b decrypts, unaltered, to the plaintext with the key
\* derived from secret b and the public key of a; decrypting it with a key
\* derived from a secret that is neither a nor b fails; and decrypting a
\* ciphertext one byte of which was altered fails with any of the keys
C29_RoundTrip ==
    crypto.op = "decrypted" =>
       /\ (~crypto.altered /\ crypto.c = crypto.b /\ crypto.d = crypto.a) =>
             crypto.result = [ok |-> TRUE, plaintext |-> crypto.plaintext]
       /\ crypto.c \notin {crypto.a, crypto.b} => ~crypto.result.ok
       /\ crypto.altered => ~crypto.result.ok

\* a two-byte plaintext encrypted between two different keypairs has been
\* decrypted by the other side and came out as it went in
C29_Witness ==
    /\ crypto.op = "decrypted"
    /\ crypto.a # crypto.b
    /\ crypto.c = crypto.b /\ crypto.d = crypto.a
    /\ ~crypto.altered
    /\ Len(crypto.plaintext) = MaxPlain
    /\ crypto.result.ok
    /\ crypto.result.plaintext = crypto.plaintext

(***************************************************************************)
(* Properties of the liveness of peers, under SpecTouch                    *)
(***************************************************************************)
\* C31: whenever the orchestrator of a node handles a frame that came over
\* the connection of a registered peer, that peer's record has last_seen
\* equal to the time of handling afterwards, whether the router admits the
\* frame or not and whoever its originator is
C31_EveryFrameTouches ==
    [][\A n \in Nodes :
          HandleIncoming(n) =>
             \A p \in peers[n] :
                p.sender = <<Head(incoming[n]).conn, n>> =>
                   \E q \in peers'[n] : q.node_id = p.node_id /\ q.last_seen = now]_vars

(***************************************************************************)
(* SpecAccept: SpecFiles, with FileAccept frames that a third node makes   *)
(* up for the sender of a transfer.                                        *)
(***************************************************************************)
\* the FileAccept frames another node (node 3) can make up for node n
ForgedAccepts(n) == {FileAcceptMsg(3, n, 0, f) : f \in FileIds}

NextAccept ==
    \/ NextFiles
    \/ \E n \in FileSenders : \E msg \in ForgedAccepts(n) : HandleFile(n, msg)

SpecAccept == InitFiles /\ [][NextAccept]_vars

(***************************************************************************)
(* SpecGateway: nodes 1 and 2 discover one another through beacons that    *)
(* say at one time that the sender has internet access and at another that *)
(* it has none, while the heartbeat of node 1 prunes.                      *)
(***************************************************************************)
NextGateway ==
    \/ \E n \in PeerNodes : \E p \in PeerNodes : \E g \in BOOLEAN : Discovered(n, p, g)
    \/ \E c \in 1..MaxConns : Accept(c)
    \/ \E n \in PeerNodes : HandleInbound(n)
    \/ \E h \in DOMAIN wq : ReadFrame(h)
    \/ \E n \in PeerNodes : HandleIncoming(n)
    \/ \E n \in HeartbeatNodes : Heartbeat(n)
    \/ PeerTick

SpecGateway == Init /\ [][NextGateway]_vars

(***************************************************************************)
(* SpecBlock: two paired nodes whose applications submit broadcasts; every *)
(* `sender.send(msg).await` of the orchestrator is a step of its own, at   *)
(* which the task waits while the writer queue has no room.                *)
(***************************************************************************)
\* broadcasts each application submits in SpecBlock
MaxBlockMsgs == 5

\* the orchestrator of n is at its select!
AtSelect(n) == sending[n] = <<>>

\* NodeCommand::SendBroadcast taken off command_rx: the message is built and
\* the loop over broadcast_senders() begins, in the order the map yields
TakeBroadcast(n) ==
    LET m == Text(n, nextId)
    IN  /\ Running(n)
        /\ AtSelect(n)
        /\ Cardinality({x \in sent : x.sender_id = n}) < MaxBlockMsgs
        /\ nextId' = nextId + 1
        /\ sent' = sent \cup {m}
        /\ \E o \in Orders(AllSenders(n)) :
              sending' = [sending EXCEPT ![n] =
                 [i \in 1..Len(o) |-> [to |-> o[i], frame |-> Frame(m, 0)]]]
        /\ UNCHANGED <<now, routervars, peers, inbound_senders, known_gateways,
                       active_call, conns, wq, incoming, announce, events, handledFrom,
                       heartbeat, file_mgr, disk, orch, shutdown, tasks, key_file,
                       identity, generated, read_ended, write_ended, crypto>>

\* writer queue h takes no frame any more: its send returns an error
QueueClosed(h) == conns[h[1]].closed \/ h \in write_ended

\* `let _ = sender.send(msg.clone()).await`: the send the orchestrator of n
\* is at completes once the writer queue has room
SendStep(n) ==
    /\ sending[n] # <<>>
    /\ LET s == Head(sending[n])
       IN  /\ QueueClosed(s.to) \/ Len(wq[s.to]) < MaxQueue
           /\ wq' = SendAll(wq, {s.to}, s.frame)
    /\ sending' = [sending EXCEPT ![n] = Tail(@)]
    /\ UNCHANGED <<now, routervars, peers, inbound_senders, known_gateways,
                   active_call, conns, incoming, announce, events, nextId, sent,
                   handledFrom, heartbeat, file_mgr, disk, orch, shutdown, tasks,
                   key_file, identity, generated, read_ended, write_ended, crypto>>

\* the incoming_rx branch, which the orchestrator takes at its select!
SelectIncoming(n) == AtSelect(n) /\ HandleIncoming(n)

InitBlock == InitTopology(Pair)

NextBlock ==
    \/ \E n \in QueueNodes : TakeBroadcast(n)
    \/ \E n \in QueueNodes : SendStep(n)
    \/ \E h \in DOMAIN wq : ReadFrame(h)
    \/ \E n \in QueueNodes : SelectIncoming(n)

SpecBlock == InitBlock /\ [][NextBlock]_vars

(***************************************************************************)
(* Pending inbound connections, under SpecPeers                            *)
(***************************************************************************)
\* the step handles, at node n, a KeyExchange that came from address addr
HandlesKeyExchangeFrom(n, addr) ==
    /\ HandleIncoming(n)
    /\ Head(incoming[n]).msg.msg_type = "KeyExchange"
    /\ Head(incoming[n]).from_addr = addr

\* C32: an entry of the pending-inbound map of a node stays in the map in
\* every step other than the handling of a KeyExchange from its remote
\* address, and after the handling of a KeyExchange from a remote address
\* the map has no entry for that address, whatever NodeId the KeyExchange
\* names as its sender
C32_PendingUntilKeyExchange ==
    [][\A n \in PeerNodes :
          /\ \A e \in inbound_senders[n] :
                IF HandlesKeyExchangeFrom(n, e.addr)
                THEN \A f \in inbound_senders'[n] : f.addr # e.addr
                ELSE e \in inbound_senders'[n]]_vars

\* the frame at the head of the inbound queue of node n is of type kind
HeadIs(n, kind) == incoming[n] # <<>> /\ Head(incoming[n]).msg.msg_type = kind

(***************************************************************************)
(* Ping, Pong and KeyExchange, under SpecPeers                             *)
(***************************************************************************)
\* the frames queue q holds after the step beyond those it held before (the
\* step appends only)
Appended(h) == SubSeq(wq'[h], Len(wq[h]) + 1, Len(wq'[h]))

\* C33: handling a Ping whose sender is registered appends one Pong, from
\* the node and addressed to the sender, to the writer queue of that peer's
\* record and leaves every other queue as it was; handling a Ping whose
\* sender is not registered leaves every queue as it was; handling a Ping, a
\* Pong or a KeyExchange leaves the router (seen-cache, nodes seen and
\* statistics) as it was and puts the handled message on no queue
C33_PingPongLocal ==
    [][\A n \in PeerNodes :
          HandleIncoming(n) /\ Head(incoming[n]).msg.msg_type \in {"Ping", "Pong", "KeyExchange"} =>
             LET m == Head(incoming[n]).msg
             IN  /\ router' = router
                 /\ \A h \in DOMAIN wq :
                       /\ IsPrefix(wq[h], wq'[h])
                       /\ \A i \in 1..Len(Appended(h)) : Appended(h)[i].msg # m
                 /\ m.msg_type = "Ping" =>
                       \A h \in DOMAIN wq :
                          IF \E p \in peers[n] : p.node_id = m.sender_id /\ p.sender = h
                          THEN /\ Len(Appended(h)) = 1
                               /\ Appended(h)[1].msg.msg_type = "Pong"
                               /\ Appended(h)[1].msg.sender_id = n
                               /\ Appended(h)[1].msg.destination = m.sender_id
                          ELSE wq'[h] = wq[h]]_vars

\* a Pong addressed to a registered peer is on that peer's writer queue
C33_Witness ==
    \E n \in PeerNodes : \E p \in peers[n] : \E i \in 1..Len(wq[p.sender]) :
       /\ wq[p.sender][i].msg.msg_type = "Pong"
       /\ wq[p.sender][i].msg.destination = p.node_id

(***************************************************************************)
(* Blocking sends, under SpecBlock                                         *)
(***************************************************************************)
\* C34: the two connected nodes never reach a state in which the
\* orchestrator of each is inside a send to the other and no task of the
\* system can take a step any more, so that neither send ever completes
C34_NoMutualBlock ==
    ~(/\ \A n \in QueueNodes : ~AtSelect(n)
      /\ ~ENABLED NextBlock)

(***************************************************************************)
(* Who may accept a transfer, under SpecAccept                             *)
(***************************************************************************)
\* C35: handling a FileAccept that names an outgoing transfer of the node
\* but whose sender is not the destination recorded for that transfer
\* enqueues nothing and leaves the outgoing record as it was
C35_OnlyDestinationAccepts ==
    [][\A n \in FileSenders : \A msg \in sent \cup ForgedAccepts(n) :
          (/\ msg.msg_type = "FileAccept"
           /\ HandleFile(n, msg)
           /\ msg.payload.file_id \in DOMAIN file_mgr[n].outgoing
           /\ file_mgr[n].outgoing[msg.payload.file_id].dest # msg.sender_id)
          => /\ wq' = wq
             /\ file_mgr'[n].outgoing = file_mgr[n].outgoing]_vars

(***************************************************************************)
(* Whose KeyExchange sets a session key, under SpecPeers                   *)
(***************************************************************************)
\* C36: the session key a node holds for a registered peer changes only in
\* a step in which the node handles a KeyExchange that came over the
\* connection of that peer's record
C36_KeyFromOwnConnection ==
    [][\A n \in PeerNodes : \A p \in peers[n] : \A q \in peers'[n] :
          (q.node_id = p.node_id /\ q.session_keys # p.session_keys)
          => /\ HandleIncoming(n)
             /\ Head(incoming[n]).msg.msg_type = "KeyExchange"
             /\ <<Head(incoming[n]).conn, n>> = p.sender]_vars

(***************************************************************************)
(* Connect and disconnect events, under SpecPeers                          *)
(***************************************************************************)
\* the events of kinds evs that node n emitted about NodeId id, in order
EventsAbout(n, id, evs) ==
    SelectSeq(events[n], LAMBDA e : e.ev \in evs /\ e.node_id = id)

\* the events of seq are first, second, first, second, ...
Alternates(seq, first, second) ==
    \A i \in 1..Len(seq) : seq[i].ev = IF i % 2 = 1 THEN first ELSE second

\* C37: for every NodeId the PeerConnected and PeerDisconnected events of a
\* node alternate, beginning with PeerConnected, and the last of them is
\* PeerConnected exactly when the NodeId is registered: none is emitted
\* twice in a row, and PeerDisconnected only for a registered peer
C37_ConnectDisconnectAlternate ==
    \A n \in PeerNodes : \A id \in Nodes :
        LET seq == EventsAbout(n, id, {"PeerConnected", "PeerDisconnected"})
        IN  /\ Alternates(seq, "PeerConnected", "PeerDisconnected")
            /\ PeerContains(peers[n], id) <=> Len(seq) % 2 = 1

\* node 1 registered peer 2, pruned it and registered it again
C37_Witness ==
    /\ Len(EventsAbout(1, 2, {"PeerConnected", "PeerDisconnected"})) = 3
    /\ PeerContains(peers[1], 2)

(***************************************************************************)
(* Gateways, under SpecGateway                                             *)
(***************************************************************************)
\* C38: the known-gateway set of a node is the set of NodeIds of its
\* registered peers whose gateway flag is set, and for every NodeId the
\* GatewayFound and GatewayLost events of the node alternate, beginning with
\* GatewayFound
C38_GatewaysAreFlaggedPeers ==
    \A n \in PeerNodes :
        /\ known_gateways[n] = {p.node_id : p \in {q \in peers[n] : q.is_gateway}}
        /\ \A id \in Nodes :
              Alternates(EventsAbout(n, id, {"GatewayFound", "GatewayLost"}),
                         "GatewayFound", "GatewayLost")

\* node 1 found gateway 2 and lost it while peer 2 stayed registered, and
\* node 2 holds node 1 as a gateway
C38_Witness ==
    /\ Len(EventsAbout(1, 2, {"GatewayFound", "GatewayLost"})) = 2
    /\ PeerContains(peers[1], 2)
    /\ known_gateways[2] = {1}

(***************************************************************************)
(* Rejections and the size of the seen-cache, under SpecRouter             *)
(***************************************************************************)
\* the step of SpecRouter is a should_process call: ret' holds the MessageId,
\* sender and TTL of the message it was given
ShouldProcessStep == ret'.op = "should_process" /\ now' = now

\* C39: a should_process call with a message that the router's own node
\* sent, that has TTL 0 or whose MessageId is in the seen-cache returns
\* false and leaves the router as it was: seen-cache, nodes seen and every
\* counter of the statistics
C39_RejectionLeavesRouter ==
    [][(/\ ShouldProcessStep
        /\ \/ ret'.sender = RouterNode
           \/ ret'.ttl = 0
           \/ ret'.id \in router[RouterNode].seen)
       => /\ ~ret'.ok
          /\ router' = router]_vars

\* the last call turned away a duplicate of another node, with TTL left,
\* while the cache held an entry that a cleanup would have dropped
C39_Witness ==
    /\ ret.op = "should_process"
    /\ ~ret.ok
    /\ ret.sender # RouterNode
    /\ ret.ttl > 0
    /\ ret.id \in router[RouterNode].seen
    /\ \E i \in 1..Len(router[RouterNode].seen_times) :
          now - router[RouterNode].seen_times[i].time > SEEN_EXPIRY

\* the number of entries of the seen-cache of the router of SpecRouter
SeenCount == Cardinality(router[RouterNode].seen)

\* C40: a should_process call that admits a message and leaves the
\* seen-cache above MAX_SEEN_CACHE entries was given an SOS while the cache
\* was full, and the cache grows above the cap in no other step and by no
\* more than one entry: the entries above the cap are at most the SOS
\* messages admitted while the cache was full, and a non-SOS message
\* admitted leaves at most MAX_SEEN_CACHE entries
C40_OnlySosExceedsCap ==
    [][/\ (ShouldProcessStep /\ ret'.ok /\ SeenCount' > MAX_SEEN_CACHE) =>
             /\ SeenCount >= MAX_SEEN_CACHE
             /\ \A m \in RouterMsgs : CallShouldProcess(m) => m.msg_type = "SOS"
       /\ (SeenCount' > SeenCount /\ SeenCount' > MAX_SEEN_CACHE) =>
             /\ ShouldProcessStep
             /\ ret'.ok
             /\ SeenCount' = SeenCount + 1]_vars

\* the last call admitted a message and the cache holds one entry more than
\* the cap
C40_Witness ==
    /\ ret.op = "should_process"
    /\ ret.ok
    /\ SeenCount = MAX_SEEN_CACHE + 1
====================
